-------------------------------- MODULE ShmXfr --------------------------------
(***************************************************************************)
(* Two processes, or threads, transfer a file through one shared block:    *)
(*   "48_1"  System V shared memory, event flags (47/47_5/event_flag.c)    *)
(*   "48_3"  System V shared memory, binary semaphores                     *)
(*   "54_1"  POSIX shared memory, binary semaphores                        *)
(*   "53_1"  threads of one process, named POSIX semaphores                *)
(* The first three use a System V set of two semaphores, one for each      *)
(* side's turn.  A binary semaphore is available at 1 and reserved at 0;   *)
(* an event flag is set at 0 and clear at 1, and waiting for a flag and    *)
(* clearing it are two separate calls.  The threads of 53_1 end the other  *)
(* way round: it is the reader that waits for one more turn.               *)
(***************************************************************************)
EXTENDS Integers, Sequences

CONSTANTS FileLen,    \* the length of the writer's standard input
          BufSize,    \* BUF_SIZE, the length of the block in shared memory
          Variants,   \* the programs considered
          Leftover    \* the programs that may find the shared-memory segment, or
                      \* for 53_1 the semaphores' names, of an earlier run

ASSUME ShmAssumption ==
    /\ FileLen \in Nat
    /\ BufSize \in Nat \ {0}
    /\ Variants \subseteq {"48_1", "48_3", "54_1", "53_1"}

VARIABLES variant,
          semExists, sem,          \* the semaphore set, [WRITE_SEM, READ_SEM]
          shmExists, cnt, buf,     \* the segment: struct shmseg
          wpc, pos, n, wbytes,     \* the writer: file position, result of
                                   \* read(), bytes counted
          rpc, rbytes, out,        \* the reader: bytes counted, its output
          puts, gets               \* history: turns finished by each side

semVars == <<semExists, sem>>
shmVars == <<shmExists, cnt, buf>>
wVars   == <<wpc, pos, n, wbytes, puts>>
rVars   == <<rpc, rbytes, out, gets>>
vars    == <<variant, semVars, shmVars, wVars, rVars>>

Sides == {"WRITE_SEM", "READ_SEM"}
UsesFlags == variant = "48_1"
UsesThreads == variant = "53_1"

WriterPoints == {"start", "initW", "initR", "shmget", "wait", "clear", "fill", "count",
                 "post", "test", "lastWait", "lastClear", "rmSem", "rmShm", "lastPost", "join",
                 "done", "failed"}
ReaderPoints == {"start", "shmget", "wait", "clear", "test", "copy", "post", "lastPost",
                 "lastWait", "done", "failed"}

-----------------------------------------------------------------------------
(* The semaphore operations, each on an existing set.                      *)

SetVal(s, v) == sem' = [sem EXCEPT ![s] = v]

\* Faulty variants: a semaphore that starts available instead of in use, a
\* reserve and a wait that do not block.
initSemInUseFree(s) == SetVal(s, 1)
reserveSemNoWait(s) == SetVal(s, IF sem[s] > 0 THEN sem[s] - 1 ELSE 0)
waitForEventFlagNoWait(s) == sem[s] \in {0, 1} /\ UNCHANGED sem

initSemAvailable(s) == SetVal(s, 1)
initSemInUse(s) == SetVal(s, 0)
reserveSem(s) == sem[s] > 0 /\ SetVal(s, sem[s] - 1)
releaseSem(s) == SetVal(s, sem[s] + 1)

setEventFlag(s) == SetVal(s, 0)
clearEventFlag(s) == SetVal(s, 1)
waitForEventFlag(s) == sem[s] = 0 /\ UNCHANGED sem

\* Give the other side its turn.
Post(s) == IF UsesFlags THEN setEventFlag(s) ELSE releaseSem(s)

-----------------------------------------------------------------------------
\* A new set has all values 0; a new segment is zero, and one that a writer
\* killed between its two IPC_RMID calls left behind ended with the count 0.
\* Byte 0 stands for anything that is not of this file.
Init ==
    /\ variant \in Variants
    /\ sem = [s \in Sides |-> 0]
    /\ semExists \in {FALSE} \cup (IF UsesThreads /\ variant \in Leftover THEN {TRUE} ELSE {})
    /\ shmExists \in {FALSE} \cup (IF ~UsesThreads /\ variant \in Leftover THEN {TRUE} ELSE {})
    /\ cnt = 0
    /\ buf = [i \in 1..BufSize |-> 0]
    /\ wpc = "start" /\ pos = 0 /\ n = 0 /\ wbytes = 0 /\ puts = 0
    /\ rpc = "start" /\ rbytes = 0 /\ out = <<>> /\ gets = 0

-----------------------------------------------------------------------------
(* The writer.                                                             *)

WSemget ==
    /\ ~UsesThreads /\ wpc = "start"
    /\ semExists' = TRUE
    /\ wpc' = "initW"
    /\ UNCHANGED <<variant, sem, shmVars, pos, n, wbytes, puts, rVars>>

WInitW ==
    /\ wpc = "initW"
    /\ IF UsesFlags THEN setEventFlag("WRITE_SEM") ELSE initSemAvailable("WRITE_SEM")
    /\ wpc' = "initR"
    /\ UNCHANGED <<variant, semExists, shmVars, pos, n, wbytes, puts, rVars>>

WInitR ==
    /\ wpc = "initR"
    /\ IF UsesFlags THEN clearEventFlag("READ_SEM") ELSE initSemInUse("READ_SEM")
    /\ wpc' = "shmget"
    /\ UNCHANGED <<variant, semExists, shmVars, pos, n, wbytes, puts, rVars>>

\* shmget(IPC_CREAT) takes an old segment as it is; shm_open(O_EXCL) refuses it.
WShmget ==
    /\ wpc = "shmget"
    /\ shmExists => variant # "54_1"
    /\ shmExists' = TRUE
    /\ wpc' = "wait"
    /\ UNCHANGED <<variant, semVars, cnt, buf, pos, n, wbytes, puts, rVars>>

WShmExists ==
    /\ wpc = "shmget" /\ shmExists /\ variant = "54_1"
    /\ wpc' = "failed"
    /\ UNCHANGED <<variant, semVars, shmVars, pos, n, wbytes, puts, rVars>>

\* Wait for our turn.  wait/lastWait are the same code at two places.
WWait ==
    /\ wpc \in {"wait", "lastWait"}
    /\ IF UsesFlags
       THEN /\ waitForEventFlag("WRITE_SEM")
            /\ wpc' = IF wpc = "wait" THEN "clear" ELSE "lastClear"
       ELSE /\ reserveSem("WRITE_SEM")
            /\ wpc' = IF wpc = "wait" THEN "fill" ELSE "rmSem"
    /\ UNCHANGED <<variant, semExists, shmVars, pos, n, wbytes, puts, rVars>>

WClear ==
    /\ wpc \in {"clear", "lastClear"}
    /\ clearEventFlag("WRITE_SEM")
    /\ wpc' = IF wpc = "clear" THEN "fill" ELSE "rmSem"
    /\ UNCHANGED <<variant, semExists, shmVars, pos, n, wbytes, puts, rVars>>

\* read(STDIN_FILENO, shmp->buf, BUF_SIZE): short reads are possible, 0 at
\* the end of the file only.
ReadSizes == {k \in 1..BufSize : pos + k <= FileLen}

WFill ==
    /\ wpc = "fill"
    /\ \E k \in (IF ReadSizes = {} THEN {0} ELSE ReadSizes) :
          /\ n' = k
          /\ buf' = [i \in 1..BufSize |-> IF i <= k THEN pos + i ELSE buf[i]]
          /\ pos' = pos + k
    /\ wpc' = "count"
    /\ UNCHANGED <<variant, semVars, shmExists, cnt, wbytes, puts, rVars>>

\* Faulty variant of WCount: a short read is taken for a full block.
WCountFull ==
    /\ wpc = "count"
    /\ cnt' = IF n = 0 THEN 0 ELSE BufSize
    /\ wpc' = "post"
    /\ UNCHANGED <<variant, semVars, shmExists, buf, pos, n, wbytes, puts, rVars>>

\* The result of read() is stored in the segment.
WCount ==
    /\ wpc = "count"
    /\ cnt' = n
    /\ wpc' = "post"
    /\ UNCHANGED <<variant, semVars, shmExists, buf, pos, n, wbytes, puts, rVars>>

\* Give reader a turn.
WPost ==
    /\ wpc = "post"
    /\ Post("READ_SEM")
    /\ puts' = puts + 1
    /\ wpc' = "test"
    /\ UNCHANGED <<variant, semExists, shmVars, pos, n, wbytes, rVars>>

\* Faulty variant of WTest: the objects are deleted without a last turn.
WTestNoLastTurn ==
    /\ wpc = "test"
    /\ IF cnt = 0 THEN wpc' = "rmSem" ELSE wpc' = "wait"
    /\ wbytes' = wbytes + cnt
    /\ UNCHANGED <<variant, semVars, shmVars, pos, n, puts, rVars>>

\* End of file is tested, and the bytes are counted, from the segment and
\* after the reader was given its turn.
WTest ==
    /\ wpc = "test"
    /\ wpc' = IF cnt # 0 THEN "wait" ELSE IF UsesThreads THEN "lastPost" ELSE "lastWait"
    /\ wbytes' = wbytes + cnt
    /\ UNCHANGED <<variant, semVars, shmVars, pos, n, puts, rVars>>

\* A thread gives the reader one more turn and ends.
WLastPost ==
    /\ wpc = "lastPost"
    /\ releaseSem("READ_SEM")
    /\ wpc' = "join"
    /\ UNCHANGED <<variant, semExists, shmVars, pos, n, wbytes, puts, rVars>>

\* The IPC objects are deleted.
WRmSem ==
    /\ wpc = "rmSem"
    /\ semExists' = FALSE
    /\ wpc' = "rmShm"
    /\ UNCHANGED <<variant, sem, shmVars, pos, n, wbytes, puts, rVars>>

WRmShm ==
    /\ wpc = "rmShm"
    /\ shmExists' = FALSE
    /\ wpc' = "done"
    /\ UNCHANGED <<variant, semVars, cnt, buf, pos, n, wbytes, puts, rVars>>

-----------------------------------------------------------------------------
(* The reader.  A reader that finds no set or no segment exits; the user   *)
(* runs it again.                                                          *)

RSemget ==
    /\ ~UsesThreads /\ rpc = "start" /\ semExists
    /\ rpc' = "shmget"
    /\ UNCHANGED <<variant, semVars, shmVars, wVars, rbytes, out, gets>>

RShmget ==
    /\ rpc = "shmget"
    /\ IF shmExists THEN rpc' = "wait" ELSE rpc' = "start"
    /\ UNCHANGED <<variant, semVars, shmVars, wVars, rbytes, out, gets>>

\* Every semaphore call on a removed set fails (EIDRM, EINVAL): errExit.
OnSet(call, then) ==
    IF semExists THEN call /\ rpc' = then
                 ELSE UNCHANGED sem /\ rpc' = "failed"

RWait ==
    /\ rpc = "wait"
    /\ IF UsesFlags THEN OnSet(waitForEventFlag("READ_SEM"), "clear")
                    ELSE OnSet(reserveSem("READ_SEM"), "test")
    /\ UNCHANGED <<variant, semExists, shmVars, wVars, rbytes, out, gets>>

RClear ==
    /\ rpc = "clear"
    /\ OnSet(clearEventFlag("READ_SEM"), "test")
    /\ UNCHANGED <<variant, semExists, shmVars, wVars, rbytes, out, gets>>

RTest ==
    /\ rpc = "test"
    /\ rpc' = IF cnt # 0 THEN "copy" ELSE IF UsesThreads THEN "lastWait" ELSE "lastPost"
    /\ rbytes' = rbytes + cnt
    /\ gets' = gets + 1
    /\ UNCHANGED <<variant, semVars, shmVars, wVars, out>>

\* The reading thread takes the writer's last post and ends.
RLastWait ==
    /\ rpc = "lastWait"
    /\ OnSet(reserveSem("READ_SEM"), "done")
    /\ UNCHANGED <<variant, semExists, shmVars, wVars, rbytes, out, gets>>

\* write(STDOUT_FILENO, shmp->buf, shmp->cnt)
RCopy ==
    /\ rpc = "copy"
    /\ out' = out \o SubSeq(buf, 1, cnt)
    /\ rpc' = "post"
    /\ UNCHANGED <<variant, semVars, shmVars, wVars, rbytes, gets>>

\* Faulty variant of RPost: the reader leaves without the writer's last turn.
RPostNoLast ==
    /\ rpc \in {"post", "lastPost"}
    /\ IF rpc = "post" THEN OnSet(Post("WRITE_SEM"), "wait")
                       ELSE rpc' = "done" /\ UNCHANGED sem
    /\ UNCHANGED <<variant, semExists, shmVars, wVars, rbytes, out, gets>>

\* Give writer a turn; one more after the end of file, so it can clean up.
RPost ==
    /\ rpc \in {"post", "lastPost"}
    /\ OnSet(Post("WRITE_SEM"), IF rpc = "post" THEN "wait" ELSE "done")
    /\ UNCHANGED <<variant, semExists, shmVars, wVars, rbytes, out, gets>>

-----------------------------------------------------------------------------
(* The main thread of 53_1.                                                *)

\* Two semaphores, made with O_EXCL, and two threads over a static buffer.
MainCreate ==
    /\ UsesThreads /\ wpc = "start" /\ ~semExists
    /\ semExists' = TRUE /\ sem' = [sem EXCEPT !["WRITE_SEM"] = 1] /\ shmExists' = TRUE
    /\ wpc' = "wait" /\ rpc' = "wait"
    /\ UNCHANGED <<variant, cnt, buf, pos, n, wbytes, puts, rbytes, out, gets>>

\* Names of an earlier run: sem_open fails, or, when only the second is left,
\* its unchecked result is no semaphore and the first sem_wait ends the process.
MainFails ==
    /\ UsesThreads /\ wpc = "start" /\ semExists
    /\ wpc' = "failed"
    /\ UNCHANGED <<variant, semVars, shmVars, pos, n, wbytes, puts, rVars>>

\* pthread_join of both threads, then the names are removed.
MainUnlink ==
    /\ wpc = "join" /\ rpc = "done"
    /\ semExists' = FALSE
    /\ wpc' = "done"
    /\ UNCHANGED <<variant, sem, shmVars, pos, n, wbytes, puts, rVars>>

-----------------------------------------------------------------------------
Writer == \/ WSemget \/ WInitW \/ WInitR \/ WShmget \/ WShmExists \/ WWait \/ WClear
          \/ WFill \/ WCount \/ WPost \/ WTest \/ WRmSem \/ WRmShm \/ WLastPost

Reader == \/ RSemget \/ RShmget \/ RWait \/ RClear \/ RTest \/ RCopy \/ RPost \/ RLastWait

Main == MainCreate \/ MainFails \/ MainUnlink

Next == Writer \/ Reader \/ Main

Spec == Init /\ [][Next]_vars

\* Both programs are run, the reader again if it came too early.
FairSpec == Spec /\ WF_vars(Writer) /\ WF_vars(Reader) /\ WF_vars(Main)

-----------------------------------------------------------------------------
TypeOK ==
    /\ variant \in Variants
    /\ semExists \in BOOLEAN /\ sem \in [Sides -> IF UsesThreads THEN 0..2 ELSE {0, 1}]
    /\ shmExists \in BOOLEAN /\ cnt \in 0..BufSize
    /\ buf \in [1..BufSize -> 0..FileLen]
    /\ wpc \in WriterPoints /\ pos \in 0..FileLen /\ n \in 0..BufSize
    /\ wbytes \in Nat /\ puts \in Nat
    /\ rpc \in ReaderPoints /\ rbytes \in Nat /\ gets \in Nat
    /\ out \in Seq(0..FileLen)

\* Points between getting the turn and passing it on.
WriterAccesses == wpc \in {"clear", "fill", "count", "post"}
ReaderAccesses == rpc \in {"clear", "test", "copy", "post"}

\* "Two semaphores are used to ensure exclusive, alternating access to the
\* shared memory segment" (48_1/svshm_xfr.h:16): the writer never stores into
\* the segment while the reader is at it, and the turns alternate.
ExclusiveAlternating ==
    /\ ~(WriterAccesses /\ ReaderAccesses)
    /\ gets <= puts /\ puts <= gets + 1

\* At the end both sides have counted every byte, although the writer counts
\* from shmp->cnt after it has passed the turn on (48_3/svshm_xfr_writer.c:37),
\* and the reader's output is the file.
AllAccountedFor ==
    (wpc = "done" /\ rpc = "done") =>
        /\ wbytes = FileLen
        /\ rbytes = FileLen
        /\ out = [i \in 1..FileLen |-> i]

\* "We then know reader has finished, and so we can delete the IPC objects"
\* (48_3/svshm_xfr_writer.c:58): the reader never meets a removed set, and it
\* has finished by the time the writer comes to remove the objects.
RemovedWhenUnused ==
    /\ rpc # "failed"
    /\ wpc \in {"rmSem", "rmShm", "done"} => rpc = "done"

\* Each run of the pair ends: nobody waits forever for a turn that is never
\* given.  (54_1's writer gives up when it finds an old segment, 53_1 when it
\* finds old names.)
Completes == <>(wpc = "failed" \/ (wpc = "done" /\ rpc = "done"))

\* The transfer is the one-block channel: a block is put when the writer
\* passes the turn, delivered when the reader writes it out.
Channel == INSTANCE XferChannel WITH
    written <- IF wpc \in {"count", "post"} THEN pos - n ELSE pos,
    output  <- out,
    closed  <- wpc \in {"lastWait", "lastClear", "lastPost", "join", "rmSem", "rmShm", "done"}
               \/ (wpc = "test" /\ cnt = 0),
    ended   <- rpc \in {"lastPost", "lastWait", "done"}

ImplementsChannel == Channel!Spec
=============================================================================
