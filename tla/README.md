# A verification project for tlpi-learn

The repository holds one reader's solutions to the exercises of *The Linux Programming
Interface* (`src/Exercise/`), notes on them (`src/README.md`) and the book's distributed code
(`src/tlpi-dist/`, vendored). Most exercises are a page of C around one system call. The
ones with a life of their own are small **client/server and writer/reader programs**: several
processes, a kernel object between them, and a protocol that has to survive interleavings,
signals, clients that die, and restarts. This project models those programs in TLA+, checks
them with TLC and proves what matters most about them with TLAPS.

Seven groups of these programs are modelled; what remains is in the plan below.

| system | source (under `src/Exercise/` unless said) | modules |
|---|---|---|
| sequence numbers over FIFOs | `44_3456/` (44.3, 44.4, 44.6) | `FifoSeqnum`, abstract `SeqService`, `MCFifoSeqnum`, `FifoSeqnum_proofs` |
| sequence numbers over message queues | `46_2`, `52/52_2` | `MsgSeqnum`, abstract `SeqService`, `MCMsgSeqnum`, `MsgSeqnum_proofs` |
| file transfer through one shared block | `48/48_1`, `48/48_3`, `54_1`, `53/53_1`, with `47/47_5/event_flag.c` and `tlpi-dist/svsem/binary_sems.c` | `ShmXfr`, abstract `XferChannel`, `MCShmXfr`, `ShmXfr_proofs` |
| file servers over message queues | `46_45` (46.4, 46.5), `52/52_3` | `FileServer`, `MCFileServer`, `FileServer_proofs` |
| connection-limiting echo server | `60/1/echo_sv.c` | `EchoSem`, `MCEchoSem`, `EchoSem_proofs` |
| select() echo server | `63/2/echo_sv.c` | `SelectEcho`, `MCSelectEcho`, `SelectEcho_proofs` |
| directory-tree monitor | `tlpi-dist/inotify/inotify_dtree.c`, with `rand_dtree.c` | `Dtree`, `MCDtree`, `Dtree_proofs`, `DtreeCache_proofs` |

## Inventory

For each component: its state; its operations; whom it meets; what is hard; what makes it
correct. *(modelled)* marks what this project covers.

**FIFO sequence numbers, 44.3/44.4/44.6** *(modelled)*. State: `seqNum`, the save file
`/tmp/save_number_sv` and its file offset, the server FIFO, one FIFO per client. Server: load or
create the save file, make and open its FIFO, read a request, open the client's FIFO (44.3 and
44.4 block, 44.6 polls 20000 times), answer, advance and save. Signals: 44.4 and 44.6 unlink the
FIFO and exit; SIGKILL (and any signal for 44.3) leaves it. Client: make its FIFO, send, wait in
`open`. A bad client (44.6) never opens. Hard: opens that block on each other, a crash between
answer and save, an unlinked FIFO with clients in it, a client that leaves at any point. Correct:
no number twice; the answer is the asker's; a restart loses little; nobody waits without end.

**Shared-memory transfer, 48.1/48.3/54.1, and its threaded form, 53.1** *(modelled)*. State: a segment `{cnt, buf}`, a set of
two semaphores, used as binary semaphores (48.3, 54.1) or event flags (48.1); in 53.1 a static buffer, two threads and two named
semaphores. Writer: create and
initialise, then wait for its turn, fill, pass the turn; after end of file wait once more and
delete the objects. Reader: attach, take its turns, copy, pass back. The threads end the other way
round: the writer posts twice and the reader takes both. Hard: wait and clear are two
calls, the count is read after the turn was passed on, deletion against the other side's last
use, objects left behind. Correct: exclusive alternating access, output equals input, objects
removed when nobody needs them.

**select() echo server, 63.2** *(modelled)*. State: the connection table `conn_fds`, `nfds`,
`rfdset`, `nready`. One round: select, at most one accept, one datagram, one read and one write per
ready connection. Hard: a snapshot used while clients go on, a full table, resets, blocking
calls inside a multiplexed loop. Correct: table, descriptors and set agree; only `select` waits;
no connection is starved.

**Sequence numbers over message queues, 46.2 and 52.2** *(modelled)*. State: `seq_num`; in 46.2 one
System V queue for requests (type 1) and answers (type pid), its identifier in a file; in 52.2 a
queue for requests and one for each client, named by its pid. Server: receive, answer, advance.
Hard: requests and answers fill the same queue; queues outlive killed servers and clients; pids
come again; a request whose queue is gone is dropped. Correct: no number twice from one server;
an answer fits its request; the server never waits for room only it can make.

**File servers over message queues, 46.4/46.5 and 52.3** *(modelled)*. State: the server's queue and, in
46.4, the file with its identifier (both made exclusively); a queue per client; one child per request.
A child streams the file in blocks and ends with END, or sends FAILURE; the handler reaps. Hard: a
full queue of a client that is gone, a POSIX queue found by pid long after the request, merged
SIGCHLD, a failing fork or read, leftovers that stop a start. Correct: whole files, one sender to a
queue, children and waiting clients come to an end, no zombie forgotten.

**Connection-limiting echo server, 60.1** *(modelled)*. State: a semaphore of `MAX_CONNECTIONS`
places, the children, the accept queue. Loop: take a place, accept, fork. The SIGCHLD handler gives a
place back for each child it reaps. Hard: the handler comes between any two steps, signals merge, a
failed fork keeps the place. Correct: every place is accounted for; nobody waits while one is free.

**Directory-tree monitor, `tlpi-dist/inotify`** *(modelled)*. State: `wlCache` (watch descriptor to
path), the roots, the buffer of events read, the kernel's watches and event queue, the filesystem.
Steps: select, read, one event, a second read 2 ms later for the partner of an `IN_MOVED_FROM`, a
walk with `nftw`, a command, a rebuild. Other processes (`rand_dtree.c`) make, remove and rename
directories at any time. Hard: events are old when they are read, the walk races the changes, two
halves of a rename come apart, the queue overflows. Correct: watches and cache agree; cache and
filesystem agree when nothing is unread; the program comes to rest.

**Thread-safe tree, 30.2** (`tsb_tree.c`). A binary tree with a mutex per node. Hard: the wrong
mutex is initialised (line 60), the root is tested and the lock dropped before the walk, lookup
takes no lock, deletion locks one node twice.

**Key-value server, 59.4; priority-data server, 61.6; queue-to-pipe bridge, 63.3; self-pipe, 63.5;
mq_notify, 52.1/52.5/52.6; FIFO semaphores, 47.6; one-time initialisation and counters, 31.1/53.4;
flock cycle, 55.8; terminal relays, 64.** Each is a program of one or two pages; what is hard in the
first few is listed, at its line, under `hazards` in `PROJECT.json`.

**Single-process exercises (chapters 3 to 43), notes, tlpi-dist.** Pure I/O, prose and vendored
code. Not modelled, except the directory-tree monitor and `tlpi-dist/svsem/binary_sems.c`, which 48.3 and
54.1 include and link.

Components meet only through the kernel's objects: FIFOs, queues, shared memory, semaphores,
sockets, the file system. No program calls another. The models therefore share no state, and
what is common to them is what they promise: `SeqService` is the specification of the FIFO
service and of both message-queue services, `XferChannel` the one of all four transfers.

## Modules and code

### SeqService and FifoSeqnum

`SeqService` is what a sequence-number server promises: while it is up, a client is granted the
next `len` numbers or the numbers are wasted; a start continues from a number that repeats at most
`MaxRepeat` earlier grants.

`FifoSeqnum` has one action per step of `fifo_seqnum_server.c` at which another process can see or
disturb it. `spc` is its program point:

| action | code |
|---|---|
| `SvCreateSave`, `SvInitSave`, `SvLoadSave`, `SvStartFails` | the save file at a start, 33-49 |
| `SvMkfifo`, `SvOpen`, `SvOpened` | 51-68; the dummy writer's open cannot block |
| `SvRead` | 72 |
| `SvPollRetry`, `SvOpenClient`, `SvGiveUp` | the polling loop of 44.6, 87-98 |
| `SvBlock`, `SvUnblock` | the blocking open of 44.3 and 44.4 (`44_3.c:61`, `44_4.c:82`) |
| `SvReply`, `SvSave` | 100-106; 108-111 |
| `SvHandler`, `SvKilled` | 4-8; SIGKILL |

`variant` says which of the three programs is installed; they differ in `Polls` and
`CatchesSignals` only. The save file is a function from int offsets to numbers, so that the
position of a write is what it is in the code: `off` is 1 after `read` (44-49) and 0 after
`lseek`. Clients follow `fifo_seqnum_client.c` line by line, `ClBadExit` is the bad client's way.

The kernel's FIFO is external and modelled by what the programs rely on: an `open` waits for the
other side, a process blocked in it already counts as that side, the contents live as long as
somebody has the FIFO open, and a descriptor of an unlinked FIFO is `"stale"`.

Left out: `seqNum`'s width, a short read of a request (eight bytes are written atomically), a
client that finds an old FIFO of its own pid (EEXIST).

### XferChannel and ShmXfr

`XferChannel` is a channel that holds at most one block: put, deliver, close, end.

`ShmXfr` models the writer and the reader over the semaphore calls, each a helper named as in
`event_flag.c` and `binary_sems.c`. `variant` selects 48.1 (flags: waiting and clearing are the
separate actions `WWait`/`WClear`), 48.3 or 54.1 (semaphores; `shm_open` with `O_EXCL`), or 53.1. `read`
may return any positive count up to the block size (`ReadSizes`), 0 at the end only. The file is the
sequence 1..FileLen, and byte 0 stands for anything that is not of this file. `WTest` reads `cnt`
from the segment after the turn was passed on, as the code does. `Leftover` says which programs
may find objects of an earlier run.

53.1 is one process. `MainCreate` makes the two named semaphores and starts both threads at their
first wait; `MainFails` is a start that finds names left behind (`sem_open` with `O_EXCL`; the second
call's result is not checked, and the first `sem_wait` on it ends the process); `MainUnlink` is the two
`pthread_join` calls and the removal. Its end is the other way round: the writer posts once more and
ends (`WLastPost`), the reader takes that post (`RLastWait`), so `READ_SEM` may be 2 for a moment.

Left out: a writer or reader killed in the middle, a second writer, a leftover semaphore set.

### SelectEcho

`spc` walks through one round of the loop: `select`, `listen`, `dgram`, `scan`, `write`. `rfdset` and
`nready` are the program's, `owner` is the kernel's table of descriptors, with the lowest free one
given out. Data is counted in pieces: `inbox` (sent, unread), `left` (in the server's buffer),
`outbox` (written back, in the kernel, at most `Room`), `received`. `Silent` clients never read what
comes back, so a `write` to them may wait for ever; `Resetting` clients may reset. Clients,
descriptors and readiness are external.

`MaxConn` stands for `MAX_CONN_FD` (1024), a small number in the run. As compiled, the usual limit
of 1024 descriptors is reached before the table is full, and `accept` then fails, which ends the
server (`CallFails`); `NoPlace` needs a larger limit or a smaller table. With a larger limit `FD_SETSIZE` (1024) comes
first too: connections start at descriptor 5, so the last ones of a full table are past the end of the `fd_set` at lines 63,
106 and 115, which C leaves undefined. The model's `rfdset` is a set without a size and says nothing of that case.

Abstracted: addresses, buffer contents, `select` interrupted by a signal (no handler is
installed).

### MsgSeqnum

Both programs of chapter 46 and 52 in one module; `variant` is `"sysv"` or `"posix"`.

| action | code |
|---|---|
| `SvMsgget`, `SvTruncate`, `SvPublish` | 46.2: a new queue, then its identifier into the file, which is empty in between |
| `SvMqOpen` | 52.2: `mq_open` with `O_EXCL`; the queue of an earlier server, which nobody removes, stops every later start |
| `SvReceive`, `SvOpenClient`, `SvSend` | the loop; the POSIX server opens the queue that has the request's pid in its name *now* |
| `SvKilled`, `ClKilled`, `Cleanup` | a signal; whoever removes a left queue |
| `ClReadFile`, `ClCreateQueue`, `ClOpenServer`, `ClSend`, `ClReceive` | the clients; a POSIX client's exit removes its queue |

`queues` holds every request queue ever made, so that a client may still wait in the one of a killed
server. A message is a record; `Used` counts a System V queue in units of an answer, a POSIX queue in
messages. `msgrcv` with a type takes the *first* message of that type (`First`), wherever it is. A
client queue is a record `[run, msgs]`: the server keeps the one it opened (`cfd`), and an answer to a
queue removed meanwhile is gone. The lengths have a
greatest one, as an `int` has. Left out: overflow of the number, a length that is not positive.

### FileServer

`variant` is 46.4/46.5 (`"sysv"`) or 52.3 (`"posix"`). A client process is `<<pid, run>>`, so that a pid may
come again while a child still serves its former owner. The server creates its queue (`SvCreate`), in
46.4 the identifier file (`SvIdFile`, empty until `SvIdWrite`), and then receives and forks; `fork` may fail, which ends it
(`SvRmid`, `SvUnlink`). `SvSignal` and `SvReap` are the handler between any two steps of the loop. A
child finds its client's queue (`KidOpenQueue`, POSIX only), sends FAILURE (`KidFailure`) or blocks
and END (`KidEnd`). `KidRead` is the `read()`: a block, the end of the file, or a read error, which the code takes
for the end; `KidSend` is the `msgsnd()` that follows, which waits for room and fails when the queue is gone. A
child that waits for room meets no read error: it waits until there is room or the queue is removed. `Init` is a state in which an earlier server was killed and any part of
what it left has been removed. Left out: a queue removed under a running server, other errors of
system calls, the contents of blocks.

### EchoSem

The start up to `sem_unlink`, then `SvSemWait`, `SvAccept`, `SvFork`. The handler (`SvSignal`, `SvReap`)
runs between any two steps and posts once for each child it reaps; `chld` is one bit, as SIGCHLD does not
queue. `SvFork` may fail: the connection is closed and the place is not given back (`lost`). A server killed
between `sem_open` and `sem_unlink` leaves the name, which stops the next start until somebody removes it. The bytes echoed are
left out: a child ends some time after its client has closed.

### Dtree

The kernel side is external but exact where the program relies on it: one watch descriptor for each
watched directory, events that carry the descriptor and not the path, a bounded queue with one overflow
event, merging of equal neighbours (`Posts` says in closed form what queueing one event after another
comes to), `IN_IGNORED` after a watch is gone, and `rename` as two events
between which other processes' events may fall.

| action | code |
|---|---|
| `Select`, `Read`, `ReadAgain` | the main loop and `processInotifyEvents`, with the second read that `ualarm` interrupts, or, if the alarm comes before the read is entered, does not ("late") |
| `EvRebuild`, `EvIgnored`, `EvAppeared`, `EvDeleteSelf`, `EvRenamed`, `EvMovedOut`, `EvHanging`, `EvMoveSelf` | the branches of `processNextInotifyEvent` |
| `WalkVisit`, `WalkList` | one step of `nftw` with `traverseTree`; other processes act between them |
| `Command` (`CmdRebuild`, `CmdCut`, `CmdAdd`, `CmdQuit`) | the commands that change the cache |
| `Mkdir`, `Rmdir`, `RenameFrom`/`RenameTo`, `MoveRoot` | the renaming processes (`rand_dtree.c`) and others |

`cache` is the set of `<<wd, path>>` pairs in use; `rewriteCachedPaths`, `Zap` (`zapSubtree`) and
`reinitialize` are operators on it. `shaken` is a history variable: which kinds of race happened since the
cache was built. The code's comments (259-265, 898-903) admit that some lead to a wrong cache for a while, and the
properties say exactly which.

`shaken` gets "rename" also from a rename that no watch reports although watched directories are below it
(`Seen`). The proof of `NoStaleEntry` asked for this, and TLC has the behaviour in an instance with one
directory more: `nftw` gives up when a directory goes under it (`WalkList`), the sibling it had not come
to stays without a watch, the user's command `a` adds what is inside that sibling, and then the sibling is renamed - no event,
and the entries below it keep their old path. The program recovers only by a rebuild. At the start the
directories form trees (`InitForest`, part of `DtreeAssumption`), which the actions keep.

Left out: `IN_UNMOUNT`, the `-a` (abort) option, a rename onto an existing directory, commands that only
show the cache, events of files that are not directories. The commands `a` and `z` take any pathname; in the model it is
one of the cache or of a monitored tree, so adding a subtree outside the roots ("Adding new subtree", line 1219) is left out: the
program would then cache paths that the properties do not count as monitored. Roots are next to each other: `copyRootDirPaths`
(382-449) rejects only the same directory given twice, and one root inside another is left out.

## Runs

| run | instance | shows |
|---|---|---|
| `fifo_safety` | 3 clients (symmetric), lengths 1..2, all three servers, 3 starts, a death at any point, 1 poll; 2.7 million states | `TypeOK`, `UniqueInEra`, `RestartRepeatsAtMostTwo`, `AnswerIsMine`, `ImplementsService` |
| `fifo_live` | 2 clients and the bad client, 44.6, 2 starts | `RequestsConsumed`, `WaitingClientAnswered` |
| `fifo_dup` | 44.6 stopped only while idle in `read`, 3 starts | `UniqueAcrossRestarts` is violated |
| `msg_seqnum` | 2 pids with 2 processes each, one of them killed, 2 starts, both programs; 247 thousand states | `TypeOK`, `NoNumberTwice`, `AnswerFitsRequest`, `AnswersHaveRoom`, `ImplementsService`, `AnsweredWhileUp` |
| `shm_xfr` | file of 6 in blocks of 3, four programs, leftover objects for 48.3, 54.1 and 53.1 | `TypeOK`, `ExclusiveAlternating`, `AllAccountedFor`, `RemovedWhenUnused`, `ImplementsChannel`, `Completes` |
| `file_server` | 3 client processes on 2 pids, one killed; files of 2, 0 and no blocks; room for 1 block; both programs; 363 thousand states | `TypeOK`, `WholeFile`, `OneSender`, `NoForgottenChild`, `ChildrenEnd`, `Answered` |
| `echo_sem` | 4 connections for 2 places, 2 starts; 76 thousand states | `TypeOK`, `PlacesAccounted`, `ConnectionsLimited`, `NoForgottenChild`, `WaitsOnlyWhenFull` |
| `echo_lost` | 3 connections for 2 places, 1 start | `TriesNextClient` is violated |
| `select_echo` | 3 clients, 2 places; one client silent, resetting and sending more than `Room` | `TypeOK`, `TableMatchesKernel`, `ReadsNeverBlock`, `NothingLost`, `ReadUnlessStuck` |
| `select_starve` | 2 clients, one silent | `NoStarvation` is violated |
| `dtree` | 2 roots, 2 directories, 1 renamer, 3 changes or commands; queue of 3, buffer of 2; 353 thousand states | `TypeOK`, `WatchesAreCached`, `NoStaleEntry`, `NothingMissed`, `Settles` |
| `dtree_missed` | 1 root, 2 directories, 2 names, 1 renamer | `RenamesAreFollowed` is violated |

Bounds. Three starts are the fewest after which a repeated number can be handed out (create,
restart, restart again). Three clients allow one answered, one in flight and one queued. One poll
suffices because only "tries left" and "none left" differ. A file of two blocks with short reads of
every size gives from two to six turns; the proofs remove that bound. Two places and three
clients give a full table, a reused place and a reused descriptor. `Room` 1 with two pieces is the
least that makes a write wait.

`msg_seqnum` has `Room` 5: with two pids and one killed client three requests can meet, and
`2 * (Senders - 1) + 1` is 5. It is the least that works: with 4, TLC finds everybody waiting, the server
for room and the clients for answers (`AnsweredWhileUp` fails). `file_server` has a file longer than the
queue, so that a child of a killed client waits, and a pid that comes again while it does. `echo_sem` has
two children that die under one signal, a full house and a queue behind it. `dtree` can fill its
queue, split a rename over two reads and have a walk under way while the tree changes; three operations
are enough for each of these and a rebuild in the middle.

Deadlock is not checked: each of these systems may stop, when every client is gone, the transfer is
over or nobody types.

Fairness. `FifoSeqnum`: a server or client that can take a step takes one (a scheduled process);
starts, signals and kills have none. `MsgSeqnum`: the same, and `SF` for a client's send, because the kernel wakes
the senders that wait for room; nobody has to start. `ShmXfr`: both programs and the main thread
run, and a reader that found no objects is run again, as its user would. `FileServer`: server, children and
clients that have started; nobody has to start or to clean up. `EchoSem`: the server and a child whose
client has closed; no client has to close. `SelectEcho`: the server, and the clients that do read; nobody has
to connect, send or close. `Dtree`: the program, and the second half of a `rename` under way; nobody has
to change the tree or to type, so `Select` has to go on only when there is an event to read, and a second read whose
alarm was lost goes on only when one comes.

## Findings

- **A restarted server repeats numbers** (`fifo_dup`). After reading the save file
  (`fifo_seqnum_server.c:48`) the offset is behind the number, and the `lseek` of line 43 is in the
  other branch. The first save of that run is written at offset 4. Stopped after one answer, even
  while idle, the server starts again with the old number. How bad it gets is bounded:
  `RestartRepeatsAtMostTwo`.
- **One client can stop the echo server** (`select_starve`). The sockets block, so `write` at
  `63/2/echo_sv.c:121` waits for a client that sends and does not read, although line 69 means to
  keep one descriptor from starving the others. `ReadUnlessStuck` says what is left of that aim:
  besides the server's end, this and a full table are the only causes.
- **A directory may never be watched** (`dtree_missed`). A process makes a directory and renames it
  before `inotify_dtree.c` has read the `IN_CREATE`. The walk (line 831) looks for the old name, finds
  nothing and goes on; the rename that follows rewrites the paths of no entry (line 950). The directory
  has no watch, so the unknown descriptor that lines 898-903 count on never comes. The comment at
  259-265 expects missing entries with several renamers only. `NothingMissed` and `NoStaleEntry` say what does
  hold: without such races, and but for what the commands `z`, and `a` with events unread, do by hand, the cache is the tree
  whenever nothing is left to read.
- **Failed forks use up the places** (`echo_lost`). The place `sem_wait` took (`60/1/echo_sv.c:97`) comes back only
  through the handler, for a child. When `fork` fails (113) there is none, and after `MAX_CONNECTIONS` failures nobody
  is served again, although line 116 says "May be temporary; try next client". `PlacesAccounted` books those places
  as lost, and `WaitsOnlyWhenFull` says that nothing else keeps one back.

Two disagreements with comments have no run of their own.

- In 48.1 the writer is not first when a segment was left behind, though `48_1/svshm_xfr_writer.c:10-11` says "initialize so
  that writer has first access". A new semaphore set reads as "both flags set"; a reader between `semget` and
  `clearEventFlag` goes first, takes the old count 0 for the end of the file and exits, and the writer may then wait for a turn
  nobody gives. The segment is one that a writer killed between its two `IPC_RMID` calls (lines 64-68) left. TLC finds it with
  `"48_1"` in `Leftover` (`ExclusiveAlternating` fails). With semaphores a value of 0 makes the reader wait, and the same
  leftover does no harm (`shm_xfr`).
- The second read of `inotify_dtree.c` may have no timeout. `ualarm(2000, 0)` (1150) and the `read` it is to interrupt
  (1152) are two calls; an alarm in between is lost, and the read waits until the trees change again, with the
  `IN_MOVED_FROM` in hand and the moved directory still cached; no command is taken meanwhile. Lines 1123 and 1142 say that it
  delays "for a short time" and has "a timeout". In the model this is pc "late", and `Settles` names it as a place
  where the program may rest.

Some limits of the programs are written into properties, not findings, as no text of the repository claims
otherwise: the message-queue server and its clients can all wait for one another when
the queue is too small (`AnswersHaveRoom` states the size needed), and a System V answer to a killed
client reaches the next process with its pid (the exception in `AnswerFitsRequest`). Likewise a file server that
ends with a request in hand loses it silently (`Answered`), a read error cuts a file short (`WholeFile`), and with POSIX queues
a pid that comes again after a kill may get another's blocks (`WholeFile`, `OneSender`). These exceptions are the hazards
themselves: the properties hold around them and do not catch them.

## Proofs

Every invariant the runs check is proved for every value of the constants, and so are the three
refinements. In each component the
properties are not inductive alone; what was added is said below. TLC checked each inductive invariant on
the run's instance before it was proved.

**`ShmXfr_proofs`**, for every `FileLen`, `BufSize` and set of variants, and without a leftover
segment for 48.1 (`"48_1" \notin Leftover`, without it TLC refutes `ExclusiveAlternating`): `ExclusiveAccess`,
`RemovedAfterUse`, `Accounting`, `Refinement` (of `XferChannel`) and `TypeCorrect`. The invariant `IInv`
says who holds the turn at every pair of program
points: `TurnInv` relates the two semaphore values and `puts`/`gets` to the points, so that at most one
side may pass its wait; `EofInv` ties the ends of the two loops to `cnt = 0`; `ObjectInv` says which
objects exist when. On top of it `DataInv` says what is in the segment and in the output: the bytes up
to `pos`, all of them or all but the block under way. `Accounting`, `TypeCorrect` and the step
simulation `StepRefinesChannel` follow from both. The threads of 53.1 end in a phase of their own
(`Ending`), in which `READ_SEM` counts the writer's last two posts.

**`FifoSeqnum_proofs`**, for any clients, lengths, polls, starts and crash points:

- `TypeCorrect` and `Uniqueness` (`UniqueInEra`). The strengthening is `IssuedBelow`: while the server runs,
  every range issued in its era ends at or below the next number to hand out - which, between the answer
  and the save, is already `seqNum + req.len`. `UniqueInEra` alone says nothing about numbers to come.
- `AnswersAreMine` (`AnswerIsMine`). A request, in the FIFO or in the server's hands, is of the length its client
  asked for (`RequestsTrue`), and an answer in a client's FIFO is one the client waits for
  (`AnswersTrue`).
- `RestartsRepeatLittle` (`RestartRepeatsAtMostTwo`). `SaveInv` says which number stands at which offset of the
  save file, how many grants the number that the next start will read lags behind, and that only the run
  that has just loaded it writes at the wrong offset.
- `Refinement` (`ImplementsService`), step by step, from these.

**`MsgSeqnum_proofs`**, for both programs and any pids, lengths, room, kills, leftovers and starts:

- `Uniqueness` (`NoNumberTwice`): no number reaches two clients of one server process. The property speaks of
  answers received; the invariant adds those on their way. `AllPast`: each was made by
  this server process or an earlier one, and its numbers are below the next one. `InQueues`, `InClients` and
  `TakenApart`: any two answers, wherever they are, have no number in common. The step lemmas follow the
  ways an answer moves: `Carried` (none moves), `Taken` and `TakenFromClient` (one is received),
  `SentShared` and `SentToClient` (a new one, by `Fresh` apart from all others). `RemoveFacts` says what
  taking a message out of the middle of a queue does.
- `AnswersFit` (`AnswerFitsRequest`). For a pid of which no process was killed there is at most one request
  or answer at a time, wherever it is - in a queue, in the server's hands, in the client's own queue - and
  it is of the length the waiting client asked for (`FitInv`).
- `Refinement` (`ImplementsService`). The abstract service bounds the grants a start may repeat. `GrantInv` counts, for each
  pid, the ranges granted, the requests not yet answered and the client about to send; together they are
  no more than the processes started with that pid. `GrantedBound` maps the grants one to one into pid and number of the
  process.
- `TypeCorrect` (`TypeOK`), with the limits of the queues (`QueueLimits`, `MailLimits`; `UsedFacts` says what one
  message more or less does to the units in use).
- `RoomForAnswers` (`AnswersHaveRoom`). In a shared queue every message, and the request in the server's hands, belongs to
  a waiting client or to one that was killed (`SharedRoom`); what is under way for a POSIX client is at
  most one answer for the waiting process and one for the killed (`OwnRoom`).

**`FileServer_proofs`**, for both programs and any clients, files and room:

- `ChildrenRemembered` (`NoForgottenChild`): a dying child with a parent leaves SIGCHLD pending, and the handler
  leaves only when nobody is dead.
- `TypeCorrect` and `OneSenderOnly` (`OneSender`), from `Control`: which request, child, queue or final message a client
  that waits has at each moment, and that there is only one of these.
- `WholeFilesOnly` (`WholeFile`), from `Control` and `InOrder`, `Progress`: what a client has received, what is in its queue and what
  its child has still to send are the file, in this order, unless a read failed.

**`SelectEcho_proofs`**, for any clients, table size and room: `TypeCorrect`, `TableAgrees` (`TableMatchesKernel`),
`NeverBlocks` (`ReadsNeverBlock`) and `NothingIsLost` (`NothingLost`). The four are conjuncts of one invariant, together with
`Accepted` (an open connection and one waiting to be accepted never belong to the same client, no client has two of
either, and one that is idle has none) and `Rounds` (what the snapshot of `select` still entitles the round to: a
descriptor it counted as ready stays readable, since nothing but the server takes away what made it so, and `buffer`
holds a remainder, `left`, only between a read and its write).

**`EchoSem_proofs`**, for any connections, places and starts: `TypeCorrect`, `PlacesAlwaysAccounted`, `NeverMoreThanMax` and
`ChildrenRemembered`. `IInv` is `TypeOK`, `PlacesAccounted` and `OffspringOK` (the dead are
children of the running server, and a server without its semaphore has none); the limit follows by counting.

**`Dtree_proofs`**, for any tree, movers and sizes of queue and buffer: `TypeCorrect` and `WatchesAlwaysCached`
(`WatchesAreCached`). Needed besides: no two directories share a descriptor and none is given out twice by one instance
(`Descriptors`); an `IN_DELETE_SELF` still to be read names a descriptor nobody has any more, so that
taking its entry out forgets no watch (`RemovalsFinal`); a queue beyond its limit holds the overflow event; `select` and `read`
come with an empty buffer (`Reading`). The lemmas say what queueing (`PostsFacts`), consuming (`ConsumedFacts`) and
reading (`TakeFacts`) do to the events still to be read, and what each kind of step does to watches and cache
(`BooksKept`, `BooksRewritten`, `BooksEmpty`, `BooksZapped`, `BooksRemoved`, `BooksForgotten`, `BooksAdded`).

**`DtreeCache_proofs`**, on top of it and as general: `NeverStale` (`NoStaleEntry`) and `NothingForgotten`
(`NothingMissed`). Four layers, of which the last is for `NothingForgotten` only:

- Paths. `PathOf` is a recursive function on a tree that changes. `Tree` says that the directories have a rank that falls
  towards the roots; by well-founded induction over it the recursive function exists and obeys its equation
  (`PathsOfTree`, `PathFacts`), no two directories in place have the same path, and renaming a directory
  changes exactly the paths it is a prefix of (`RenamePaths`, `MovedBelow`). The induction needs no operator parameter:
  it is `WFMin` on the set of counterexamples.
- `Struct`: every action keeps the tree one, watches are on linked directories, a rename under way holds its two directories,
  and the monitored roots in place are in `roots`.
- `Followed`, the invariant proper, for as long as `shaken` has neither "rename" nor "command". Either no rename is to be read
  and every entry has its directory's path (`Settled`); or the next event to be read is a rename's first, and every entry will have
  its directory's path once what is below `OldPath` is moved to `new` - the place the second event names, read or not, posted or
  not (`Renaming`), or the place outside the trees (`RootMoving`). Each action keeps the phase, begins a rename,
  or settles it: by rewriting, by zapping, or by a rebuild.
- `Complete`, for as long as `shaken` is empty. `Frontier` holds the directories without a watch in a directory with one. Each of them
  will be found (`Covered`): an overflow event is coming, or its path is to be visited or its parent's to be listed by a walk,
  or a rename under way has still to queue its `IN_MOVED_TO`, or an event to be read tells of it. Such an event
  is of use only if the cache does not have the path any more when it is processed, since lines 805-829 then take the directory for one
  they know; so it has to come after the `IN_DELETE_SELF` of every descriptor whose entry has the path (`Holders`).
  While a rename is the next event, the paths in the cache are those of before it: the directories of the frontier are told by an `IN_CREATE`
  after the removals of all that will have the path once it is rewritten (`CoveredAfter`), and the new place is
  free in the cache (`Arrives`). A walk's visit moves a directory's children into the frontier and its listing puts them into
  the walk. With nothing to read, no walk and no rename under way `Covered` cannot hold, so the frontier is empty,
  and with `Settled` and `RootsCovered` the paths in the cache are those of the trees.

The assumptions on constants are `FifoAssumption`, `ShmAssumption`, `SelectAssumption`, `DtreeAssumption`,
`MsgSeqnumAssumption`, `FileServerAssumption` and `EchoSemAssumption`; TLC evaluates each. No theorem has another hypothesis,
`ShmXfr`'s leftover segment excepted. Two of them say a little more than a first reading of the code
suggests: there is a file to ask for (`File # {}`), and the lengths have a greatest one.

Everything temporal under fairness (`Completes`, `RequestsConsumed`,
`WaitingClientAnswered`, `ReadUnlessStuck`, `AnsweredWhileUp`, `ChildrenEnd`, `Answered`, `WaitsOnlyWhenFull`,
`Settles`, and `NoStarvation` and `TriesNextClient`, which fail) is model-checked only: liveness is beyond the prover.

## Plan

What is left, in this order.

1. In `ShmXfr`: a writer or reader killed in the middle, and a second writer.
2. `KvServer` (59.4): the loop after a read error. `MsgPipeBridge` (63.3), `SelfPipe` (63.5), `MqNotify`
   (52.x), `BinaryFifo` (47.6): one small module each.

## Not modelled

- `30_2/tsb_tree.c`, the tree "with a mutex per node": the author calls it unfinished (`src/README.md:804`). It
  locks a node it already holds and uses mutexes it never initialises, so almost every run is undefined, and
  there is no behaviour to state properties of.
- The programs of the plan's last item, the priority-data server (61.6), one-time initialisation and counters (31.1, 53.4), the
  `flock` demonstration (55.8).
- Terminal programs (64: `script`, `ssh`, `unbuffer`): relays between a terminal and a pseudoterminal;
  what matters in them is terminal modes.
- Exercises of chapters 3 to 43: one process and one system call each, with no protocol.
- `tlpi-dist` but for the directory-tree monitor and `svsem/binary_sems.c`: the book's examples of one
  system call each, vendored.
- In the modelled programs: error exits of system calls that the models do not name, the width of
  counters, formatting and logging.
