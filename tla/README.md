# A TLA+ model of tpli_learn

The repository holds a set of C programs written while learning Linux system
programming.  Most of them are short demonstrations of one system call; a few
are real components with state, threads and protocols.  This directory models
the latter, checks them with TLC on small instances, and proves the central
invariants with TLAPS for every instance.

## The system

| Part | Source | What it is |
| --- | --- | --- |
| list | `apps/sysbus/src/list.h` | intrusive circular lists, with a label in every node |
| transmit ring, event loop | `apps/sysbus/lib_src/multiplex_io.c` | epoll thread, handles, a byte ring per handle |
| broker | `apps/sysbus/src/local_server.c` | publish/subscribe over a Unix socket |
| client library | `apps/sysbus/lib_src/libsysbus.c`, `libsyslog.c` | connection, receive thread, send calls |
| message queue | `apps/msg/que.c` | System V queue with timeouts, one timer thread |
| ring queue | `apps/vcar_sys_ringqueue/vcar_sys_ringqueue.c` | queue of variable-size items with readers' bit masks |
| multi-timer | `apps/mul_timer/mul_timer.c` | software timers on one SIGALRM |
| CAN replay | `apps/udp/server/udp_server.c` | parser and sender threads with pause and resume |
| red-black tree | `apps/msg/rbtree.c`, `rbtree.h` | insertion, removal and replacement that readers without a lock may watch |
| JSON documents | `apps/cjson/cJSON.c` | items in doubly linked lists, parser, printer |
| JSON patches | `apps/cjson/cJSON_Utils.c` | pointers, sorting, JSON Patch, JSON Merge Patch |

The parts of *sysbus* build on each other: the broker's callbacks run in the
epoll thread of `multiplex_io`, which keeps its handles in lists, tests with
`list_contains_node` whether an event still has a handle, and sends what the
broker enqueues from a ring per handle.  `cJSON_Utils.c` works on the items of
`cJSON.c`.  `que.c`, `rbtree.c`, `mul_timer.c`, the ring queue and the CAN replay
program stand alone: `que.c` does not use the tree of `rbtree.c` but functions
(`rbtree_init`, `rbtree_min`) that are nowhere in the repository.

## Modules

Each component has a module with its state, one action per operation or step of
a handler, and its properties; an `MC` module and `.cfg` files that instantiate
it; and, where something is proved, a `Proofs` module (`SysbusLibProofs` serves both
`SysbusClient` and `MioRing`, which is why the latter has names of its own for its
`RingInit`, `RingNext` and `RingSpec`).  Definitions named `MUT_...` are deliberately wrong versions of the definition after them.  No
specification uses them: they are there to show that the property they are
paired with in `PROJECT.json` notices the mistake.

| Module | Models | State and actions |
| --- | --- | --- |
| `SysbusList` | `list.h` | the three pointers of every node; one action per list operation |
| `SeqLists` | what lists promise | named sequences; insertion at either end, deletion |
| `MioRing` | `mio_rb_t` and its users | both indices, the array, the thread's copies; bytes are numbered by their position in the stream |
| `MultiplexIo` | the epoll thread and its callers | handles, descriptors, epoll registrations, the batch in hand; a section under a mutex is one step, a read outside of one is a step of its own |
| `PubSub` | what the broker promises | subscriptions and queues of packets |
| `LocalServer` | `local_server.c` | streams cut into reads, `rx_idx`, the two kinds of lists of references, the transmit rings; one action per turn of a loop in the callbacks |
| `SysbusClient` | `libsysbus.c` | the handle, the descriptor, the receive thread's place, the bytes in `rx_buff` and in the socket; the application disconnects from a thread or from the callback |
| `TimedQueue` | `que.c` | the queue, the tree of timers, pending signals, the pipe, every thread's place in its call |
| `RingQueue` | `vcar_sys_ringqueue.c` | slots with masks and lengths, memory as units that remember their item, both kinds of locks; one action per turn of `CHECK_MEM` and per locked section |
| `CanReplay` | `udp_server.c` | the command loop, the parse and send threads of each START, the semaphore, the queue; one action per access to something shared |
| `MulTimer` | `mul_timer.c` | the table of timers, the interval timer and the signal; one action per store, the handler entry by entry |
| `RbTree` | `rbtree.c`, `rbtree.h` | links, colours and the cached leftmost node; each turn of a rebalancing loop queues its stores in program order, and `Store` performs them up to the next one a lookup can see |
| `CJson` | `cJSON.c`, items | operators on a memory of cells with `next`, `prev` and `child`: lookup, adding, creating, copying, detaching, inserting, replacing, comparing, deleting |
| `CJsonText` | `cJSON.c`, text | the parser on tokens with its depth and its error paths; the printer with the bytes it asks `ensure` for and the bytes it stores |
| `CJsonUtils` | `cJSON_Utils.c` | pointers, the merge sort, generating and applying patches and merge patches |
| `CJsonClient` | a program that uses cJSON | the heap and what the program holds; one action per call, each with a number of allocations that succeed before one fails |

`MultiplexIo` abstracts the ring to a counter of packets, which is what
`MioRing` justifies; `LocalServer` abstracts the event loop to "some readable
client is served, every client fairly", which is what `MultiplexIo` justifies;
both treat lists as sets, which is what `SysbusList` justifies.

The operators of the `CJson` modules take the memory and return it changed, with
the value the C function returns, because these functions call each other and
themselves: an action of `CJsonClient` is one whole call.  A memory counts the
allocations that still succeed (`credit`), so a call can fail at any of its
allocations, and notices a store to, or the freeing of, something that is not an
allocated item (`wild`).  Names and values are members of small sets; `Alphabet`
gives the order of `strcmp`, `Lower` what `tolower` does.

## What the runs show

- `sysbus_list` (two heads, four nodes).  Links and labels stay consistent;
  the label test is exact; the pointers implement `SeqLists`.  With two heads and
  four nodes there are inserts into empty and non-empty lists, at both ends,
  moves between lists, and removals from the front, the middle and the end.
- `mio_ring` (array of 5, up to 17 bytes).  Order, integrity and length of the
  stream.  17 bytes let each index wrap three times; 5 slots distinguish partial
  writes before, at and after the wrap.
- `multiplex_io` (listener and two client handles, two descriptors, two
  connections, batches of two, rings of one packet).  No freed handle is used, none
  is lost from epoll except through reuse of its descriptor, no wakeup is lost,
  full rings drain, input is served.  Two connections are enough for one to get
  the descriptor of the other within a batch.  All ready handles fit a batch: the
  model's `epoll_wait` picks any of them, while the kernel rotates its list, so
  with fewer places the model could pass one over for ever.  That a `write` takes
  a part of a ring is left to `mio_ring`, and with rings of one packet a full one is
  empty after one drain.  A writer in another thread may come between its
  `list_contains_node` and its write too late: the handle was deleted (`LateWrite`)
  or freed (`FreedWrite`).  The model ends with the latter, and with a drain whose
  second `write` fails (`SendWrapped`), which makes `r_idx` 2^32 - 1: neither has a
  defined effect, so nothing is claimed of what follows.  Fairness: the epoll thread runs (`WF`),
  which the scheduler gives it, and a peer that is alive reads what it is sent;
  without the latter a socket stays full for ever and nothing can be promised.
- `local_server` (two clients, two references, two ids, five packets to choose from, three
  of them sent, `rx_buf` of 13 bytes for packets of up to 10, reads of 3 bytes or
  of what is left).  The lists are consistent and the broker implements `PubSub`;
  only closed clients are dropped; everything is parsed, unless the client lost its
  epoll registration to one that was dropped in the same batch (`deaf`) or the loop
  ended, as `InputIsServed` says as well.  Two references and two
  ids let a client run into a failing `malloc`; a read of 3 bytes ends within a
  header, within a payload and within a list of ids, and the reads that follow
  end in other places of the packets after it.  Fairness: parsing goes on (`WF`),
  the batch comes to its end (`WF`), and a client that epoll knows and that has
  bytes in its socket is read again and again (`SF`), which is `InputIsServed` of
  `multiplex_io` with the same exceptions.  Nothing is assumed of dropping clients or of
  draining rings.
- `timed_queue` (two threads, a queue of one, messages of 3 bytes read into 2 or 3,
  timeouts of 1 and 2, clock up to 2).
  No timer outlives its frame; the timer thread never oversleeps; a signal hits
  only the call it is meant for; a timed call returns unless its signal came too
  early.  Two timeouts are what it takes for a second timer to be earlier than the
  one `select` waits for.  `delete_timer` also deletes a timer that the timer thread
  has already taken out of the tree; the code of the tree is not in the repository,
  and the model assumes that this does nothing.  Fairness: the clock advances and threads inside a call
  are scheduled; nobody has to make a call.
- `timed_queue_timeout` is expected to fail; see below.
- `sysbus_client` (packets of 4, 5 and 7 bytes in a buffer of 8, four packets, two
  connections, all cuts).  The receive thread never meets a freed handle; it holds
  no complete packet back and ends only at the end of the stream, when its descriptor
  was closed, or when a signal interrupts its `read` (`interrupted`: the code takes
  EINTR for the end and tells the callback so, although the broker is there); the
  callback hears of a closed connection; a disconnect returns once the receive
  thread has left the `read` it was in, and nothing is claimed before.  The buffer is one byte larger than the largest
  packet, the tightest case of the assumption (in the code it is three larger).
  Fairness: the receive thread and a finished join go on; neither the broker nor
  the application has to do anything.
- `ring_queue` (three slots, four units of memory, items of two and three).  Items
  in the queue are not overwritten as long as the head has not passed the tail, nor
  are those a reader is about to copy by right of its claim as long as no claim was
  brought back (`passed` and `revived`, see below); a loyal reader misses nothing,
  against a guest that makes all calls.  Only two items of two fit at once, so that
  writes wrap and the end pointer is taken from items of earlier rounds.  Items have
  between one unit and all of the memory.  The code (line 264) accepts other
  lengths: a write of more than `memSize` never finds room, but releases every item
  that nobody claims and moves the head past the tail, after which a loyal reader
  that has not begun to read does miss items.  Writes of length 0 are left out too.
- `can_replay` (two STARTs, five commands; a file with lines before, in and after
  the window once, or a file of one frame twice).  The frames in the queue are the
  selected ones, in order, unless two STARTs overlap (`overlap`) or a command arrives
  while a line is compared with the window (`torn`).  A parse thread that saw a PAUSE
  goes on after the RESUME, and each RESUME ends one pause at most
  (`EachResumeOnce`).  A PAUSE does not hold in every case: a RESUME that is sent
  before the parse thread has come to its next line leaves a token in the semaphore,
  which undoes a later PAUSE.  `early` counts such RESUMEs, `undone` the pauses that
  ended without one of their own, `answered` says that the pause in hand has got its
  RESUME; the property relates them to the semaphore.  STOP leaves nothing of an earlier
  replay behind, except the send thread of a START whose file was missing
  (`StartLeaks` is another way to leave a queue), and returns, unless `fopen` failed
  and `fgets` of the null pointer ends the process.  Two STARTs are what it takes for
  one replay to disturb another.  Fairness: the threads are scheduled; no command has to come.
- `mul_timer` (two entries, three kinds of timers).  The handler counts only whole
  entries, the process is killed in `destroy_mul_timer` only, and timers that are set
  are called.  All three except an entry that a procedure, called by the handler, sets
  or deletes while `set_a_timer` is filling it (`touched`): its state is still 0, so
  two calls share it, the procedure's timer is lost at the `memset`, or the handler
  calls a null pointer (`ProcNull`).  The properties show that the damage stays in
  that entry.  Two entries are needed for a procedure
  to set or delete another entry than its own.  Fairness: ticks keep coming while
  the interval timer runs, and the handler is scheduled.

- `rb_tree` (eleven nodes, two of them with the same key).  Between any two stores
  a lookup ends and sees only members; every operation leaves a search tree whose
  red nodes have black children and whose paths have equally many black nodes,
  with the right leftmost node; the walks forwards, backwards and in postorder
  meet every node once and in order.  Ten different keys are the fewest with which
  a removal moves the missing black node up past a black parent that is not the
  root: with nine, a `EraseFlip` that never does so passes.  Stores to colours and
  parents are performed together with the next link, since a lookup reads neither
  (the notes in `rbtree.c` say the same).
- `cjson` (three calls on documents parsed from seventeen texts or built from new
  items; 0, 1, 2, 4 or all allocations of a call succeed).  Documents stay whole
  through every sequence of calls: no item leaks, is shared, or is used after it
  was freed.  The memory of names and strings is not tracked, except that freeing a
  constant or borrowed one counts as an error.  In every state reached, equality, pointers, patches and merge patches
  are compared with definitions on values, the printer is run with every size of
  buffer, and what it prints is parsed again.  Three calls are enough to build a
  document out of two others and to edit it, and a fourth is examined by the
  properties, which look at every pair of documents that is reached.  The nesting
  limit is 2 and one text nests three arrays.  Numbers are counted in units of their
  last place: `compare_double` takes numbers a unit apart for equal, `compare_json`
  does unless an integer lies between them, fifteen digits tell multiples of `Grain`
  apart, and infinity is a number of its own, which is printed as null and which
  `compare_double` takes for equal to every finite number and not to itself.  The
  properties say so: equality, patches and the round trip are up to a unit, and about
  finite numbers.  Pointers are made for every item of a document from its root.  The
  program keeps the rules at the head of `CJsonClient`; each one is a case in which
  the code goes wrong: references share members that are then edited or freed;
  something is appended to a sorted object; a patch overwrites a root that is a
  reference, or frees a constant name; the `from` of a move is not a string, which
  `detach_path` does not expect.

The bounds `MaxBytes`, `MaxConns`, `MaxSent`, `MaxTime`, `MaxIn`, `MaxConnects`,
`MaxStarts`, `MaxLines`, `MaxCmds`, `MaxElapse`, `MaxCalls`, `MaxItems` and `MaxSize`
only cut behaviours off.  Runs that say `CHECK_DEADLOCK FALSE` do so because the
systems can legitimately stop (nothing left to send, everyone waiting for a
message, no call left).

## Findings

- **A timed call may wait for ever** (`que.c:252`, `:326`).  The timer is armed
  before `msgsnd` or `msgrcv` is called.  If it expires first, the empty handler
  of `SIGUSR1` runs before the call blocks and nothing signals it again.
  `que.h` says "other wait timeout ms".  `ReturnsUnlessSignalEarly` shows that
  this is the only way.

Three more disagreements can be read off the code and need no run:
`send_que_timedwait` returns 0 on success (`que.c:257`), not the length that
`que.h:11` promises; the merge patch from {"a": 1, "B": 2} to {"B": 2} is
{"B": 2, "a": null, "B": null}, although `cJSON_Utils.h:72` "generates a patch to
move from -> to", because `generate_merge_patch` sorts the members ignoring case and
then steps through them by `strcmp` (`cJSON_Utils.c:1405` and `:1422`; the premise
`SameOrder` of `MergePatchWorks` leaves such names out); and the length of the reply to a PAUSE is computed with the
size of a pointer (`udp_server.c:402`), so that with a short file name the reply
ends before the offset it is sent for ("将resume时间发送到客户端").

Behaviours the models contain that no line of the repository contradicts are in
the statements of the properties: a handle that inherits the descriptor of one
that is closed but not yet reaped loses its epoll registration
(`StaysRegistered`); an interrupted `epoll_wait` ends the loop, and a write to a
vanished peer ends the process (`Ended`); a failed `write` moves `r_idx` back by
one (`intact`); a packet without payload stays in `rx_buf` until more bytes come
(`LeftoverIsPartial`); an interrupted `read` in the receive thread of a client is
reported as the end of the stream (`interrupted`); `sysbus_disconnect` waits as long as the broker is silent,
because closing a descriptor does not end a `read` on it (`DisconnectReturns`);
the head of an empty ring queue can pass its tail, after which claimed items may
be overwritten (`passed`); two readers of an item that overlap each store the mask
they loaded without their own bit, so that one brings back the claim the other gave
up (`revived`), and a third reader's copy may then meet memory that is being reused; two STARTs in quick
succession share one set of thread ids (`overlap`); a RESUME that comes too early
undoes a later PAUSE (`early`); a timer procedure may take the entry that is being
filled (`touched`); a tick between the two calls
in `destroy_mul_timer` ends the process (`KilledOnlyInDestroy`).

In the JSON modules the same holds of these, which are in the definitions, in the
rules the program of `CJsonClient` keeps, or in the premises of its properties:

- `sort_list` does not maintain `prev` of the first member (`cJSON_Utils.c:484`).
  A later append links nothing, or links behind the wrong member, and returns
  true (`sorted`).
- `detach_path` always ignores case (`cJSON_Utils.c:466`), and
  `generate_merge_patch` sorts as it is told, steps by `strcmp` and descends
  ignoring case.  Patches are exact only if no two names differ in case alone
  (`OneCase`).
- `replace_item_in_object` ignores a failing `cJSON_strdup` and leaves a member
  without a name, at which later case-sensitive searches end.
- `cJSON_AddItemReferenceToObject` leaks the reference if its name cannot be
  copied (`lost`).
- `cJSONUtils_ApplyPatches` leaves the document half patched when a patch fails.
- `decode_array_index_from_pointer` takes an empty token for index 0.
- `parse_string` looks for the opening quotation mark without asking whether the
  text goes on (`cJSON.c:777`).  After a comma at the end of a text of explicit
  length that byte is behind the text; parsing fails whatever it is.

`PrintFits` confirms the note at `cJSON.h:162` that five bytes more than a text needs
are enough for `cJSON_PrintPreallocated`.

## What is proved

All proofs are for arbitrary constants under the module's named assumption.

- `SysbusListProofs` (`ListAssumption`: heads and items are disjoint, items finite).
  `ListInv` is inductive.  Exactness of the label test needs more than labels and
  links: it needs that every labelled node is reached by walking, `LabelReached`,
  with `Members(l)` the least set containing `l` and closed under `next`.  Each
  action is shown to preserve it by exhibiting closed sets of the old state.
  `ListRefinement`: the pointers implement `SeqLists`.  The abstract list is the walk
  from the head, `Walk(l)`, the sequence of items along `next` back to `l`; it is
  defined without recursion, by what every stop of it points to.  Since no two nodes
  have the same successor there is at most one such sequence and it repeats nothing,
  so it is enough to exhibit the sequence each operation leaves behind; that there is
  one at all is carried along as `WalkInv`.
- `SysbusLibProofs`, transmit ring (`RingAssumption`: size at least 2, indices wide
  enough).
  `RingInv` adds to the properties where the thread is (`DrainInv`): how far its
  copy of `r_idx` is ahead of the shared one, and that it lies behind the wrap
  only if the shared `w_idx` does.  Without this a writer that appends during a
  drain could not be shown to stay clear of the bytes being sent.  The comment
  "shall be 2^n" on the size is not needed: any size of at least 2 works.
- `LocalServerProofs` (`ServerAssumption`).  `SubscriptionsConsistent` is inductive
  together with types and with "in the middle of a control packet the packet is
  complete".  For `LeftoverIsPartial` and `OnlyClosedAreDropped` the invariant says
  that the bytes in `rx_buf` and in the socket are those of the packets in the
  stream, as a layout function from packets to positions, and that `rx_buf` is
  never full between callbacks.  `BrokerRefinement`: the broker implements `PubSub`,
  with the ids of a client's references as its subscriptions and its ring as its
  inbox.  It rests on `SubscriptionsConsistent`: with one reference at most per client
  and id, the walk of `dispatch_pkt` writes to every subscriber once, so that a ring
  with room gets the packet exactly once; and a dropped client leaves no reference.
- `MulTimerProofs` (`MulTimerAssumption`).  `EntriesAreWhole` needs to know, for every
  place in `set_a_timer`, which fields of the entry are already those of the call
  (`FillingIsPrivate`, a theorem of its own), for entries no procedure has touched
  meanwhile; `KilledOnlyInDestroy` needs how the saved disposition and the saved
  interval follow each other through nested calls of init (`SignalInv`).
- `MultiplexIoProofs` (`MioAssumption`).  `NoDanglingHandle`,
  `StaysRegistered` and `QueuedIsArmed`, for any number of handles, descriptors,
  events in a batch and writers.  The invariant `MioInv` ties handles, descriptors
  and registrations together (`RegisteredInv`: no two handles in use share a
  descriptor, one that has the descriptor of a deleted handle counts as reused, and
  `epevt.events` is what epoll was told).  Three things the properties do not say
  are needed.  If the callback has deleted the handle in hand, nobody can have got
  its descriptor before the thread re-arms it, so that this does not touch another
  registration (`CurrentInv`).  A batch holds a handle at most once, so that
  re-arming one does not change what the events behind it were reported for
  (`BatchInv`).  The thread may hold a wakeup back only while it works on the handle
  and has still to look at the ring (`ArmedInv`).
- `TimedQueueProofs` (`QueAssumption`).  `TimersAreOnStack`, `SelectCoversTimers` and
  `OnlyOwnTimeout`, for any threads and timeouts.  What has to be added (`CallInv`) is
  that a signal pending for a call, and one that has interrupted it, belongs to its
  own timer, which has run out: a late signal meets `msgget` of the next call first.
  That the tree has an earliest timer rests on the well-foundedness of `<`.
- `SysbusLibProofs`, client (`ClientAssumption`).  `NoUseAfterFree` and `NothingHeldBack`, for
  any packets, buffer and cuts.  As in the broker the invariant says that the bytes in
  `rx_buff` and in the socket are those of the packets in the stream (`BufferInv`);
  with less than a packet in the buffer between reads there is always room, so a
  `read` of 0 bytes is the end of the stream.
- `CanReplayProofs` (`ReplayAssumption`).  `FramesInOrder`, `EachResumeOnce` and
  `StopIsClean`, for any files and any number of STARTs and commands.  `ReplayInv` has
  three parts.  `ThreadInv`: as long as no two STARTs overlapped, the thread ids and
  the queue in the global variables are those of the last START, and the threads of
  the earlier ones are gone; this is what STOP relies on.  `PauseInv`: who a token of
  the semaphore is for.  `FrameInv`: the line in hand is the one in the shared
  `can_item`, and it lies in the window; this needs `ThreadInv`, or another replay
  could have overwritten it.  That the queue is a selection of the file is stated by an
  increasing function from frames to lines, which each step extends or keeps.
- `RingQueueProofs` (`RingQueueAssumption`).  `NothingMissed` and `ClaimedIntact`, for any
  number of readers and slots, any memory and any lengths between 1 and the size of
  the memory (`MemInv` needs both bounds).  `QueueInv` has three
  parts.  `ClaimInv`: the writer is about to release the head only if no loyal reader
  is owed it, and a mask that some reader has loaded and will store still names every
  loyal reader the item is owed to; so the unprotected stores never lose a loyal
  claim.  `PendInv`: as long as no claim was brought back, a reader with a claim in
  hand still has it in the mask, so the head cannot be released under it.  `MemInv`:
  as long as the head has not passed the tail, the items in the queue lie in order
  around the free memory between `wrPos` and `wrEnd`, first those above it, then those
  below; so the end pointer taken from a released item never frees memory in use.

The types of `LocalServer` and `MulTimer` are proved (`TypeCorrect`), being a conjunct of
the inductive invariants, and have no run of their own.

Only model-checked: the liveness properties (`FullRingDrains`, `InputIsServed`,
`EverythingIsParsed`, `EofIsReported`, `DisconnectReturns`, `StopCompletes`,
`SetTimersAreCalled`, `ReturnsUnlessSignalEarly`), and everything about `RbTree` and
the `CJson` modules.  Liveness under fairness and
`ENABLED` are beyond the prover.  So is induction over data, which is what nearly
every statement about trees and documents comes to; their modules also use recursive
operators, which the prover does not accept.

## Not modelled

- *sysbus*: `local_server_stop` and `MIO_CTL_OP_SET_CFG` have no callers, the log
  service is disabled in `main.c`, `libsyslog.c` formats a line and sends it.
  Subscriptions to the control id 0 are left out, and more ready handles than
  events, for which the order in which the kernel reports them matters.
- *CAN replay*: the pacing by the clock; the client is represented by its commands.
- *Ring queue*: `VCAR_SYS_RingQueueClean` works on the address of its own parameter
  and has no caller; the bytes of the header.
- *Red-black tree*: `rbtree_augmented.h` is not in the repository;
  `__rb_erase_augmented` and `__rb_change_child` are modelled from how `rbtree.c`
  uses them.  The callbacks of augmented trees are never given.
- *cJSON*: the characters of numbers and strings (their tokens carry a value and a
  width), 0, negative numbers and NaN, the memory of texts, UTF-16 escapes, `cJSON_Minify`, the memory hooks, `cJSON_SetValuestring`
  and the type predicates.  In pointers, names that need the escapes `~0` and `~1`,
  which `decode_pointer_inplace` decodes wrongly, and indices with other characters
  behind a digit, which `decode_array_index_from_pointer` (line 285) accepts.  The functions of
  `cJSON_Utils.c` do not handle failing allocations and are called when there is
  memory.
- `vcar_sys_ringqueue/ringqueue.c`, `msg/recv.c` and `cjson/main.c` are test programs;
  the programs under `signal`, `uevent`, `thread_cancle`, `timers`, `net`, `seek`,
  `stdio_cache`, `file_opt`, `systemctl` and `sqlite3` are straight-line
  demonstrations; `inc/` are headers of the TLPI library.

What would come next: the broker composed with its clients, to show end to end that
a packet reaches the callback of every live subscriber whose ring has room, in the
order in which the broker took it.
