----------------------------- MODULE FifoSeqnum -----------------------------
(***************************************************************************)
(* The sequence-number service over FIFOs of Exercise/44_3456: a server    *)
(* (fifo_seqnum_server.c, and its earlier stages 44_3.c and 44_4.c), the   *)
(* client fifo_seqnum_client.c and the misbehaving client                  *)
(* fifo_seqnum_bad_client.c.                                               *)
(*                                                                         *)
(* The server keeps its number in a save file, is stopped by SIGINT or     *)
(* SIGTERM (handler: unlink the FIFO, exit) or by SIGKILL, and is started  *)
(* again.  A client makes its own FIFO, sends one request through the      *)
(* server's FIFO and waits in open(O_RDONLY) for the answer.               *)
(*                                                                         *)
(* The kernel's FIFOs are modelled from how the programs use them: a       *)
(* blocking open waits for the other side, a pipe's contents live as long  *)
(* as somebody has it open, an unlinked FIFO can no longer be reached.     *)
(***************************************************************************)
EXTENDS Integers, Sequences, FiniteSets

CONSTANTS Client,     \* processes running fifo_seqnum_client
          BadClient,  \* processes running fifo_seqnum_bad_client
          MaxLen,     \* bound: the longest sequence a client asks for
          MaxStarts,  \* bound: how often the server is started
          MaxPoll,    \* the 20000 tries of the polling loop, scaled down
          Variants,   \* the server programs considered, of "44_3", "44_4", "44_6"
          CrashAt     \* bound: the program points at which a server dies

Pid == Client \cup BadClient

ASSUME FifoAssumption ==
    /\ Client \cap BadClient = {}
    /\ MaxLen \in Nat \ {0}
    /\ MaxStarts \in Nat
    /\ MaxPoll \in Nat \ {0}
    /\ Variants \subseteq {"44_3", "44_4", "44_6"}

VARIABLES
    variant,   \* which of the three server programs is installed
    \* -------- the server process
    spc,       \* its program point, "down" when it is not running
    era,       \* how many times it was started
    seqNum,    \* the next number to hand out
    req,       \* the request being served
    tries,     \* the loop counter of the polling loop
    off,       \* the file offset of save_fd, in ints
    \* -------- the save file
    saveExists,
    save,      \* its contents, by offset in ints
    \* -------- the server's FIFO
    svPath,    \* SERVER_FIFO exists
    reqs,      \* the requests in the pipe
    \* -------- each client
    cpc,       \* its program point
    len,       \* the length it asks for
    sfd,       \* its descriptor of the server's FIFO: "none", "live", or
               \* "stale" when that FIFO has been unlinked since
    got,       \* the number it received
    \* -------- each client's FIFO
    clPath,    \* its path exists
    wopen,     \* the server opened it for writing since the client reads it
    resp,      \* the answers in the pipe
    \* -------- history
    issued     \* the answers the server has put into a client's FIFO

serverVars == <<spc, era, seqNum, req, tries, off>>
saveVars   == <<saveExists, save>>
fifoVars   == <<svPath, reqs>>
clientVars == <<cpc, len, sfd, got>>
cfifoVars  == <<clPath, wopen, resp>>
vars == <<variant, serverVars, saveVars, fifoVars, clientVars, cfifoVars, issued>>

-----------------------------------------------------------------------------
ServerPoints == {"down", "init", "mkfifo", "open", "opening", "read", "poll",
                 "blocked", "reply", "save"}
ClientPoints == {"start", "openSv", "opening", "write", "openOwn", "wait",
                 "done", "failed", "killed"}
Gone == {"done", "failed", "killed"}

\* The points at which the server has SERVER_FIFO open for reading.
Reading == {"opening", "read", "poll", "blocked", "reply", "save"}

Request == [pid : Pid, len : 1..MaxLen]

\* fifo_seqnum_server.c polls with O_NONBLOCK; the other two block in open().
Polls == variant = "44_6"
\* 44_3.c installs no handler, so SIGINT and SIGTERM are like SIGKILL for it.
CatchesSignals == variant \in {"44_4", "44_6"}

\* Client c has its FIFO open for reading: from its open() on, as a blocked
\* opener counts as a reader, until the process is gone.
ReadsOwnFifo(c) == cpc[c] = "wait"

-----------------------------------------------------------------------------
Init ==
    /\ variant \in Variants
    /\ spc = "down" /\ era = 0 /\ seqNum = 0
    /\ req \in Request          \* not initialised, and not used before it is read
    /\ tries = 0 /\ off = 0
    /\ saveExists = FALSE /\ save = [s \in {} |-> 0]
    /\ svPath = FALSE /\ reqs = <<>>
    /\ cpc = [c \in Pid |-> "start"]
    /\ len = [c \in Pid |-> 1]
    /\ sfd = [c \in Pid |-> "none"]
    /\ got = [c \in Pid |-> 0]
    /\ clPath = [c \in Pid |-> FALSE]
    /\ wopen = [c \in Pid |-> FALSE]
    /\ resp = [c \in Pid |-> <<>>]
    /\ issued = {}

-----------------------------------------------------------------------------
(* The server.                                                             *)

WriteSave(v) == save' = [s \in DOMAIN save \cup {off} |-> IF s = off THEN v ELSE save[s]]

\* open(SAVE_FILE_PATH): create it when it is missing.
SvCreateSave ==
    /\ spc = "down" /\ era < MaxStarts
    /\ ~saveExists
    /\ saveExists' = TRUE /\ save' = [s \in {} |-> 0]
    /\ seqNum' = 0 /\ off' = 0 /\ era' = era + 1
    /\ spc' = "init"
    /\ UNCHANGED <<variant, req, tries, fifoVars, clientVars, cfifoVars, issued>>

\* The new file gets the number 0; then lseek back to its start.
SvInitSave ==
    /\ spc = "init"
    /\ WriteSave(seqNum) /\ off' = 0
    /\ spc' = "mkfifo"
    /\ UNCHANGED <<variant, era, seqNum, req, tries, saveExists, fifoVars, clientVars, cfifoVars, issued>>

\* Faulty variant of SvLoadSave: an existing save file is not read.
SvLoadNothing ==
    /\ spc = "down" /\ era < MaxStarts
    /\ saveExists /\ 0 \in DOMAIN save
    /\ seqNum' = 0 /\ off' = 1 /\ era' = era + 1
    /\ spc' = "mkfifo"
    /\ UNCHANGED <<variant, req, tries, saveVars, fifoVars, clientVars, cfifoVars, issued>>

\* A later start reads the number; the offset stays behind what was read.
SvLoadSave ==
    /\ spc = "down" /\ era < MaxStarts
    /\ saveExists /\ 0 \in DOMAIN save
    /\ seqNum' = save[0] /\ off' = 1 /\ era' = era + 1
    /\ spc' = "mkfifo"
    /\ UNCHANGED <<variant, req, tries, saveVars, fifoVars, clientVars, cfifoVars, issued>>

\* read() of an empty save file returns 0: errExit("read").
SvStartFails ==
    /\ spc = "down" /\ era < MaxStarts
    /\ saveExists /\ 0 \notin DOMAIN save
    /\ era' = era + 1
    /\ UNCHANGED <<variant, spc, seqNum, req, tries, off, saveVars, fifoVars, clientVars,
                   cfifoVars, issued>>

\* mkfifo(); a FIFO left behind (EEXIST) is used as it is.
SvMkfifo ==
    /\ spc = "mkfifo"
    /\ svPath' = TRUE
    /\ spc' = "open"
    /\ UNCHANGED <<variant, era, seqNum, req, tries, off, saveVars, reqs, clientVars,
                   cfifoVars, issued>>

\* Entering open(SERVER_FIFO, O_RDONLY).
SvOpen ==
    /\ spc = "open"
    /\ spc' = "opening"
    /\ UNCHANGED <<variant, era, seqNum, req, tries, off, saveVars, fifoVars, clientVars,
                   cfifoVars, issued>>

\* It returns once a writer has opened the FIFO; the dummy writer's open
\* cannot block any more.
SvOpened ==
    /\ spc = "opening"
    /\ reqs # <<>> \/ \E c \in Pid : sfd[c] = "live"
    /\ spc' = "read"
    /\ UNCHANGED <<variant, era, seqNum, req, tries, off, saveVars, fifoVars, clientVars,
                   cfifoVars, issued>>

SvRead ==
    /\ spc = "read"
    /\ reqs # <<>>
    /\ req' = Head(reqs) /\ reqs' = Tail(reqs)
    /\ tries' = 0
    /\ spc' = "poll"
    /\ UNCHANGED <<variant, era, seqNum, off, saveVars, svPath, clientVars, cfifoVars, issued>>

\* Faulty variant of SvPollRetry: one try too many.
SvPollRetryOneMore ==
    /\ spc = "poll" /\ Polls
    /\ clPath[req.pid] /\ ~ReadsOwnFifo(req.pid)
    /\ tries <= MaxPoll
    /\ tries' = tries + 1
    /\ UNCHANGED <<variant, spc, era, seqNum, req, off, saveVars, fifoVars, clientVars,
                   cfifoVars, issued>>

\* Faulty variant of SvPollRetry: tries are not counted.
SvPollRetryForever ==
    /\ spc = "poll" /\ Polls
    /\ clPath[req.pid] /\ ~ReadsOwnFifo(req.pid)
    /\ UNCHANGED vars

\* open(clientFifo, O_WRONLY | O_NONBLOCK) fails with ENXIO: try again.
SvPollRetry ==
    /\ spc = "poll" /\ Polls
    /\ clPath[req.pid] /\ ~ReadsOwnFifo(req.pid)
    /\ tries < MaxPoll
    /\ tries' = tries + 1
    /\ UNCHANGED <<variant, spc, era, seqNum, req, off, saveVars, fifoVars, clientVars,
                   cfifoVars, issued>>

\* Faulty variant of SvGiveUp: the tries need not be used up.
SvGiveUpEarly ==
    /\ spc = "poll"
    /\ ~clPath[req.pid] \/ Polls
    /\ spc' = "read"
    /\ UNCHANGED <<variant, era, seqNum, req, tries, off, saveVars, fifoVars, clientVars,
                   cfifoVars, issued>>

\* Open failed, give up on client: the tries are used up, or the client's
\* FIFO is gone (ENOENT).  The number is not advanced.
SvGiveUp ==
    /\ spc = "poll"
    /\ ~clPath[req.pid] \/ (Polls /\ tries = MaxPoll)
    /\ spc' = "read"
    /\ UNCHANGED <<variant, era, seqNum, req, tries, off, saveVars, fifoVars, clientVars,
                   cfifoVars, issued>>

\* The client's FIFO is opened for writing.
SvOpenClient ==
    /\ spc = "poll"
    /\ clPath[req.pid] /\ ReadsOwnFifo(req.pid)
    /\ Polls => tries < MaxPoll
    /\ wopen' = [wopen EXCEPT ![req.pid] = TRUE]
    /\ spc' = "reply"
    /\ UNCHANGED <<variant, era, seqNum, req, tries, off, saveVars, fifoVars, clientVars,
                   clPath, resp, issued>>

\* 44_3.c and 44_4.c: a blocking open of a FIFO nobody reads yet.
SvBlock ==
    /\ spc = "poll" /\ ~Polls
    /\ clPath[req.pid] /\ ~ReadsOwnFifo(req.pid)
    /\ spc' = "blocked"
    /\ UNCHANGED <<variant, era, seqNum, req, tries, off, saveVars, fifoVars, clientVars,
                   cfifoVars, issued>>

SvUnblock ==
    /\ spc = "blocked"
    /\ wopen[req.pid]
    /\ spc' = "reply"
    /\ UNCHANGED <<variant, era, seqNum, req, tries, off, saveVars, fifoVars, clientVars,
                   cfifoVars, issued>>

\* The answer is written and the client's FIFO closed.  When the client has
\* gone the write fails (EPIPE) and only a message is printed.
SvReply ==
    /\ spc = "reply"
    /\ IF ReadsOwnFifo(req.pid)
       THEN /\ resp' = [resp EXCEPT ![req.pid] = Append(@, seqNum)]
            /\ issued' = issued \cup {[pid |-> req.pid, era |-> era,
                                       from |-> seqNum, len |-> req.len]}
       ELSE UNCHANGED <<resp, issued>>
    /\ spc' = "save"
    /\ UNCHANGED <<variant, era, seqNum, req, tries, off, saveVars, fifoVars, clientVars,
                   clPath, wopen>>

\* Faulty variant of SvSave: one number per request, whatever its length.
SvSaveOne ==
    /\ spc = "save"
    /\ seqNum' = seqNum + 1
    /\ WriteSave(seqNum + 1)
    /\ off' = 0
    /\ spc' = "read"
    /\ UNCHANGED <<variant, era, req, tries, saveExists, fifoVars, clientVars, cfifoVars,
                   issued>>

\* Faulty variant of SvSave: no lseek, the file grows.
SvSaveNoSeek ==
    /\ spc = "save"
    /\ seqNum' = seqNum + req.len
    /\ WriteSave(seqNum + req.len)
    /\ off' = off + 1
    /\ spc' = "read"
    /\ UNCHANGED <<variant, era, req, tries, saveExists, fifoVars, clientVars, cfifoVars,
                   issued>>

\* The number is advanced and written at the current file offset; lseek to 0.
SvSave ==
    /\ spc = "save"
    /\ seqNum' = seqNum + req.len
    /\ WriteSave(seqNum + req.len)
    /\ off' = 0
    /\ spc' = "read"
    /\ UNCHANGED <<variant, era, req, tries, saveExists, fifoVars, clientVars, cfifoVars,
                   issued>>

\* SIGINT or SIGTERM with the handler installed: unlink(SERVER_FIFO), exit.
\* Requests in the unlinked FIFO can no longer be read by anyone.
SvHandler ==
    /\ CatchesSignals
    /\ spc \in CrashAt \ {"down"}
    /\ svPath' = FALSE /\ reqs' = <<>>
    /\ sfd' = [c \in Pid |-> IF sfd[c] = "live" THEN "stale" ELSE sfd[c]]
    /\ spc' = "down"
    /\ UNCHANGED <<variant, era, seqNum, req, tries, off, saveVars, cpc, len, got,
                   cfifoVars, issued>>

\* SIGKILL, or SIGINT and SIGTERM without a handler: the FIFO stays.  What is
\* in it survives as long as a client has it open.
SvKilled ==
    /\ spc \in CrashAt \ {"down"}
    /\ reqs' = IF \E c \in Pid : sfd[c] = "live" THEN reqs ELSE <<>>
    /\ spc' = "down"
    /\ UNCHANGED <<variant, era, seqNum, req, tries, off, saveVars, svPath, clientVars,
                   cfifoVars, issued>>

-----------------------------------------------------------------------------
(* The clients.                                                            *)

\* What a client's exit does to its descriptors.  The pipe of SERVER_FIFO is
\* emptied when its last holder closes it.
CloseAll(c) ==
    /\ sfd' = [sfd EXCEPT ![c] = "none"]
    /\ reqs' = IF spc \in Reading \/ \E d \in Pid \ {c} : sfd[d] = "live"
               THEN reqs ELSE <<>>
    /\ resp' = [resp EXCEPT ![c] = <<>>]

\* exit(): the atexit function removes the client's FIFO.
Exit(c, how) ==
    /\ CloseAll(c)
    /\ clPath' = [clPath EXCEPT ![c] = FALSE]
    /\ cpc' = [cpc EXCEPT ![c] = how]
    /\ UNCHANGED <<variant, serverVars, saveVars, svPath, len, wopen, issued>>

\* Its own FIFO is made before the request is sent.
ClStart(c) ==
    /\ cpc[c] = "start"
    /\ \E l \in 1..MaxLen : len' = [len EXCEPT ![c] = l]
    /\ clPath' = [clPath EXCEPT ![c] = TRUE]
    /\ cpc' = [cpc EXCEPT ![c] = "openSv"]
    /\ UNCHANGED <<variant, serverVars, saveVars, fifoVars, sfd, got, wopen, resp, issued>>

\* Entering open(SERVER_FIFO, O_WRONLY); without the FIFO it is ENOENT.
ClOpenSv(c) ==
    /\ cpc[c] = "openSv" /\ svPath
    /\ sfd' = [sfd EXCEPT ![c] = "live"]
    /\ cpc' = [cpc EXCEPT ![c] = "opening"]
    /\ UNCHANGED <<variant, serverVars, saveVars, fifoVars, len, got, cfifoVars, issued>>

ClNoServer(c) ==
    /\ cpc[c] = "openSv" /\ ~svPath
    /\ Exit(c, "failed")
    /\ UNCHANGED got

\* The open returns once the server has the same FIFO open for reading.
ClOpened(c) ==
    /\ cpc[c] = "opening"
    /\ sfd[c] = "live" /\ spc \in Reading
    /\ cpc' = [cpc EXCEPT ![c] = "write"]
    /\ UNCHANGED <<variant, serverVars, saveVars, fifoVars, len, sfd, got, cfifoVars, issued>>

\* Faulty variant of ClWrite: the length asked for is not sent.
ClWriteDefaultLen(c) ==
    /\ cpc[c] = "write"
    /\ sfd[c] = "live" /\ spc \in Reading
    /\ reqs' = Append(reqs, [pid |-> c, len |-> 1])
    /\ cpc' = [cpc EXCEPT ![c] = "openOwn"]
    /\ UNCHANGED <<variant, serverVars, saveVars, svPath, len, sfd, got, cfifoVars, issued>>

ClWrite(c) ==
    /\ cpc[c] = "write"
    /\ sfd[c] = "live" /\ spc \in Reading
    /\ reqs' = Append(reqs, [pid |-> c, len |-> len[c]])
    /\ cpc' = [cpc EXCEPT ![c] = "openOwn"]
    /\ UNCHANGED <<variant, serverVars, saveVars, svPath, len, sfd, got, cfifoVars, issued>>

\* Nobody reads the FIFO any more: SIGPIPE ends the client, atexit functions
\* do not run.
ClSigpipe(c) ==
    /\ cpc[c] = "write"
    /\ sfd[c] = "stale" \/ spc \notin Reading
    /\ CloseAll(c)
    /\ cpc' = [cpc EXCEPT ![c] = "killed"]
    /\ UNCHANGED <<variant, serverVars, saveVars, svPath, len, got, clPath, wopen, issued>>

\* Entering open(clientFifo, O_RDONLY).  A server blocked in its own open of
\* this FIFO is the writer that ends the wait.
ClOpenOwn(c) ==
    /\ cpc[c] = "openOwn" /\ c \in Client
    /\ cpc' = [cpc EXCEPT ![c] = "wait"]
    /\ wopen' = [wopen EXCEPT ![c] = (spc = "blocked" /\ req.pid = c)]
    /\ UNCHANGED <<variant, serverVars, saveVars, fifoVars, len, sfd, got, clPath, resp, issued>>

\* The answer is read and printed.
ClGot(c) ==
    /\ cpc[c] = "wait" /\ wopen[c]
    /\ resp[c] # <<>>
    /\ got' = [got EXCEPT ![c] = Head(resp[c])]
    /\ Exit(c, "done")

\* The writer has come and gone without an answer: end of file.
ClEof(c) ==
    /\ cpc[c] = "wait" /\ wopen[c]
    /\ resp[c] = <<>>
    /\ ~(spc \in {"reply", "blocked"} /\ req.pid = c)
    /\ Exit(c, "failed")
    /\ UNCHANGED got

\* The bad client sleeps, then exits without opening its FIFO.
ClBadExit(c) ==
    /\ cpc[c] = "openOwn" /\ c \in BadClient
    /\ Exit(c, "done")
    /\ UNCHANGED got

\* A signal ends a client at any point; its FIFO stays behind.
ClKilled(c) ==
    /\ cpc[c] \notin Gone \cup {"start"}
    /\ CloseAll(c)
    /\ cpc' = [cpc EXCEPT ![c] = "killed"]
    /\ UNCHANGED <<variant, serverVars, saveVars, svPath, len, got, clPath, wopen, issued>>

-----------------------------------------------------------------------------
SvStart == SvCreateSave \/ SvLoadSave \/ SvStartFails

SvStep == \/ SvInitSave \/ SvMkfifo \/ SvOpen \/ SvOpened \/ SvRead
          \/ SvPollRetry \/ SvGiveUp \/ SvOpenClient \/ SvBlock \/ SvUnblock
          \/ SvReply \/ SvSave

ClStep(c) == \/ ClStart(c) \/ ClOpenSv(c) \/ ClNoServer(c) \/ ClOpened(c)
             \/ ClWrite(c) \/ ClSigpipe(c) \/ ClOpenOwn(c) \/ ClGot(c)
             \/ ClEof(c) \/ ClBadExit(c)

Next == \/ SvStart
        \/ SvStep
        \/ SvHandler
        \/ SvKilled
        \/ \E c \in Pid : ClStep(c) \/ ClKilled(c)

Spec == Init /\ [][Next]_vars

\* A process that can run is scheduled.  Nobody is obliged to start the
\* server, to stop it or to kill anyone.
FairSpec == Spec /\ WF_vars(SvStep) /\ \A c \in Pid : WF_vars(ClStep(c))

-----------------------------------------------------------------------------
ServerTypes ==
    /\ variant \in Variants
    /\ spc \in ServerPoints
    /\ era \in 0..MaxStarts
    /\ seqNum \in Nat
    /\ req \in Request
    /\ tries \in 0..MaxPoll
    /\ off \in {0, 1}

SaveTypes ==
    /\ saveExists \in BOOLEAN
    /\ DOMAIN save \subseteq {0, 1} /\ save \in [DOMAIN save -> Nat]

ClientTypes ==
    /\ cpc \in [Pid -> ClientPoints]
    /\ len \in [Pid -> 1..MaxLen]
    /\ sfd \in [Pid -> {"none", "live", "stale"}]
    /\ got \in [Pid -> Nat]

FifoTypes ==
    /\ svPath \in BOOLEAN
    /\ reqs \in Seq(Request)
    /\ clPath \in [Pid -> BOOLEAN]
    /\ wopen \in [Pid -> BOOLEAN]
    /\ resp \in [Pid -> Seq(Nat)]

IssuedTypes ==
    issued \subseteq [pid : Pid, era : 0..MaxStarts, from : Nat, len : 1..MaxLen]

TypeOK == ServerTypes /\ SaveTypes /\ ClientTypes /\ FifoTypes /\ IssuedTypes

Numbers(g) == g.from .. (g.from + g.len - 1)

\* While one server process lives, no number is handed out twice: the number
\* is advanced after every answer, whichever clients die and whichever
\* requests are given up (fifo_seqnum_server.c:102-108).
UniqueInEra ==
    \A g, h \in issued : g.era = h.era /\ g # h => Numbers(g) \cap Numbers(h) = {}

\* "The service provided is the allocation of unique sequential numbers"
\* (tlpi-dist/pipes/fifo_seqnum_server.c:16): also across restarts.
UniqueAcrossRestarts ==
    \A g, h \in issued : g # h => Numbers(g) \cap Numbers(h) = {}

\* What a restart would hand out again.  The number a later start reads is
\* the one at offset 0; the first save after such a start goes behind it
\* (no lseek after the read of line 48), so two answers may be missing from
\* it - the one in flight and that first one - but never more.
RestartRepeatsAtMostTwo ==
    0 \in DOMAIN save =>
        Cardinality({g \in issued : g.era = era /\ g.from >= save[0]}) <= 2

\* A client that ends well holds a range the server issued to it, of the
\* length it asked for: no answer reaches a client it was not meant for, and
\* none arrives for a request of another length.
AnswerIsMine ==
    \A c \in Client : cpc[c] = "done" =>
        \E g \in issued : g.pid = c /\ g.from = got[c] /\ g.len = len[c]

\* README 44.6: a client that never opens its FIFO costs the polling server
\* MaxPoll tries, after which it serves the next request.  So no request
\* stays in the pipe of a server that lives.
RequestsConsumed ==
    \A c \in Pid :
        (Polls /\ spc \in Reading /\ \E i \in DOMAIN reqs : reqs[i].pid = c)
          ~> (spc = "down" \/ \A i \in DOMAIN reqs : reqs[i].pid # c)

\* A client already waiting in open() when the server comes to it gets an
\* end, as long as the server stays up; once it is down nothing is asked.
WaitingClientAnswered ==
    \A c \in Client :
        (Polls /\ cpc[c] = "wait" /\ spc = "poll" /\ req.pid = c /\ tries < MaxPoll)
          ~> (spc = "down" \/ cpc[c] \in Gone)

\* The programs implement the abstract service: every answer is an
\* allocation at the service's next number, a failed write uses the numbers
\* up, a restart repeats at most two answers.
Service == INSTANCE SeqService WITH
    up        <- spc # "down",
    next      <- IF spc = "down" THEN 0
                 ELSE IF spc = "save" THEN seqNum + req.len ELSE seqNum,
    granted   <- issued,
    MaxRepeat <- 2

ImplementsService == Service!Spec
=============================================================================
