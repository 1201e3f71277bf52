------------------------------ MODULE FileServer ------------------------------
(***************************************************************************)
(* The file servers over message queues: Exercise/46_45 (System V) and     *)
(* Exercise/52/52_3 (POSIX).                                               *)
(*                                                                         *)
(* A client makes a queue and sends its name with a pathname to the        *)
(* server's queue.  The server forks a child for each request, which sends *)
(* the file to the client's queue in blocks and ends with END, or sends    *)
(* FAILURE.  The SIGCHLD handler reaps the children.                       *)
(*                                                                         *)
(* A process is <<p, r>>: the r-th with pid p.  A System V queue has an    *)
(* identifier of its own; a POSIX queue has the pid in its name.           *)
(***************************************************************************)
EXTENDS Integers, Sequences, FiniteSets

CONSTANTS Pid,        \* process identifiers of clients
          Mortal,     \* those that may be killed, once each
          File,       \* files
          Asks,       \* those the clients with each pid ask for
          Blocks,     \* the number of blocks of each, -1 when it cannot be opened
          Cap,        \* full blocks (or POSIX messages) that fit a client's queue
          ServerCap,  \* requests that fit the server's queue
          MaxStarts,  \* bound: how often the server is started, the first time before Init
          MaxRuns     \* bound: client processes with each pid

Id == UNION {{p} \X (1..MaxRuns[p]) : p \in Pid}
None == <<>>
Empty == -1

ASSUME FileServerAssumption ==
    /\ Mortal \subseteq Pid /\ File # {}
    /\ Asks \in [Pid -> SUBSET File]
    /\ Blocks \in [File -> Int] /\ \A f \in File : Blocks[f] >= -1
    /\ Cap \in Nat \ {0} /\ ServerCap \in Nat \ {0}
    /\ MaxStarts \in Nat /\ MaxRuns \in [Pid -> Nat]

VARIABLES variant,            \* "sysv" or "posix"
          spc, starts, cur,   \* the server; cur: the request received
          hand, chld,         \* in the SIGCHLD handler; SIGCHLD pending
          offspring,          \* children of the running server
          skey, sq,           \* the server's queue: which start made it (0: no queue), requests
          file,               \* SERVER_ID_FILE: the identifier in it, Empty, or 0 when there is none
          kid,                \* the child that serves a request: [st, box, pos]
          cpc, runs, sid, asked, got,   \* clients
          linked, box,        \* client queues that exist, and what is in them
          killed,             \* history: pids of killed clients
          unread,             \* history: requests whose file had a read error
          done                \* history: files received to the end

server  == <<spc, starts, cur, hand, chld, offspring>>
clients == <<cpc, runs, sid, asked, got>>
history == <<killed, unread, done>>
vars == <<variant, server, skey, sq, file, kid, clients, linked, box, history>>

Sysv == variant = "sysv"
Data(f, n) == [type |-> "DATA", file |-> f, block |-> n]
End == [type |-> "END"]
Failure == [type |-> "FAILURE"]
Zombies == {i \in Id : kid[i].st = "zombie"}
Serving == {i \in Id : kid[i].st \in {"queue", "open", "send", "end"}}

-----------------------------------------------------------------------------
(* The server.                                                             *)

\* The queue is made with O_EXCL or IPC_EXCL: one left behind is in the way.
SvCreate ==
    /\ spc = "down" /\ starts < MaxStarts /\ starts' = starts + 1
    /\ IF skey # 0 THEN UNCHANGED <<spc, skey>>
       ELSE skey' = starts + 1 /\ spc' = IF Sysv THEN "idfile" ELSE "receive"
    /\ UNCHANGED <<variant, cur, hand, chld, offspring, sq, file, kid, clients, linked, box, history>>
\* A file left behind stops the start, whose queue stays.  A new one is empty
\* until the identifier is written.
SvIdFile ==
    /\ spc = "idfile"
    /\ IF file # 0 THEN spc' = "down" /\ UNCHANGED file ELSE spc' = "idwrite" /\ file' = Empty
    /\ UNCHANGED <<variant, starts, cur, hand, chld, offspring, skey, sq, kid, clients, linked, box, history>>
SvIdWrite ==
    /\ spc = "idwrite" /\ spc' = "receive" /\ file' = skey
    /\ UNCHANGED <<variant, starts, cur, hand, chld, offspring, skey, sq, kid, clients, linked, box, history>>
SvReceive ==
    /\ spc = "receive" /\ ~hand /\ sq # <<>>
    /\ cur' = Head(sq) /\ sq' = Tail(sq) /\ spc' = "fork"
    /\ UNCHANGED <<variant, starts, hand, chld, offspring, skey, file, kid, clients, linked, box, history>>

NewKid(i) == [st |-> IF Sysv THEN "open" ELSE "queue", box |-> i, pos |-> 0]
\* A failure of fork() ends the server, with the request.
SvFork ==
    /\ spc = "fork" /\ ~hand /\ cur' = None
    /\ \/ /\ kid' = [kid EXCEPT ![cur] = NewKid(cur)]
          /\ offspring' = offspring \cup {cur} /\ spc' = "receive"
       \/ spc' = (IF Sysv THEN "rmid" ELSE "unlink") /\ UNCHANGED <<kid, offspring>>
    /\ UNCHANGED <<variant, starts, hand, chld, skey, sq, file, clients, linked, box, history>>
SvRmid ==
    /\ spc = "rmid" /\ ~hand
    /\ skey' = 0 /\ sq' = <<>> /\ spc' = "unlink"
    /\ UNCHANGED <<variant, starts, cur, hand, chld, offspring, file, kid, clients, linked, box, history>>

\* The process ends, and its children have another parent.
SvEnds ==
    /\ spc' = "down" /\ cur' = None /\ hand' = FALSE /\ chld' = FALSE /\ offspring' = {}
    /\ kid' = [i \in Id |-> IF i \in Zombies THEN [kid[i] EXCEPT !.st = "gone"] ELSE kid[i]]
    /\ UNCHANGED <<variant, starts, clients, linked, box, history>>
SvUnlink ==
    /\ spc = "unlink" /\ ~hand /\ SvEnds
    /\ IF Sysv THEN file' = 0 /\ UNCHANGED <<skey, sq>> ELSE skey' = 0 /\ sq' = <<>> /\ UNCHANGED file
SvKilled == spc # "down" /\ SvEnds /\ UNCHANGED <<skey, sq, file>>

SvSignal ==
    /\ chld /\ ~hand /\ chld' = FALSE /\ hand' = TRUE
    /\ UNCHANGED <<variant, spc, starts, cur, offspring, skey, sq, file, kid, clients, linked, box, history>>
\* Faulty variant of SvReap: one waitpid() for each signal.
SvReapOne ==
    /\ hand /\ hand' = FALSE
    /\ \/ \E i \in Zombies : kid' = [kid EXCEPT ![i].st = "gone"] /\ offspring' = offspring \ {i}
       \/ Zombies = {} /\ UNCHANGED <<kid, offspring>>
    /\ UNCHANGED <<variant, spc, starts, cur, chld, skey, sq, file, clients, linked, box, history>>
\* waitpid() until there is no dead child.
SvReap ==
    /\ hand
    /\ \/ /\ \E i \in Zombies : kid' = [kid EXCEPT ![i].st = "gone"] /\ offspring' = offspring \ {i}
          /\ UNCHANGED hand
       \/ Zombies = {} /\ hand' = FALSE /\ UNCHANGED <<kid, offspring>>
    /\ UNCHANGED <<variant, spc, starts, cur, chld, skey, sq, file, clients, linked, box, history>>

SvStep == SvIdFile \/ SvIdWrite \/ SvReceive \/ SvFork \/ SvRmid \/ SvUnlink \/ SvSignal \/ SvReap

\* Somebody removes what a server left.
RemoveQueue ==
    /\ spc = "down" /\ skey # 0 /\ skey' = 0 /\ sq' = <<>>
    /\ UNCHANGED <<variant, server, file, kid, clients, linked, box, history>>
RemoveIdFile ==
    /\ spc = "down" /\ file # 0 /\ file' = 0
    /\ UNCHANGED <<variant, server, skey, sq, kid, clients, linked, box, history>>

-----------------------------------------------------------------------------
(* The child that serves request i.                                        *)

KidEnds(i) ==
    /\ kid' = [kid EXCEPT ![i] = [st |-> IF i \in offspring THEN "zombie" ELSE "gone", box |-> i, pos |-> 0]]
    /\ chld' = (chld \/ i \in offspring)
KidGoto(i, l) == kid' = [kid EXCEPT ![i].st = l] /\ UNCHANGED chld

kidUnchanged == <<variant, spc, starts, cur, hand, offspring, skey, sq, file, clients, linked, killed, done>>

\* The System V queue of a client that has ended is gone; a POSIX queue stays
\* as long as it is open.
Removed(b) == Sysv /\ b \notin linked
\* END has no bytes, which is all that System V counts.
Used(q) == IF Sysv THEN Cardinality({k \in DOMAIN q : q[k].type = "DATA"}) ELSE Len(q)
Fits(b, m) == Used(box[b]) < Cap \/ (Sysv /\ m.type # "DATA")
Put(b, m) == ~Removed(b) /\ Fits(b, m) /\ box' = [box EXCEPT ![b] = Append(@, m)]

\* POSIX: the queue that has the client's pid in its name, if there is one.
KidOpenQueue(i) ==
    /\ kid[i].st = "queue"
    /\ \/ /\ \E b \in linked : b[1] = i[1] /\ kid' = [kid EXCEPT ![i].box = b, ![i].st = "open"]
          /\ UNCHANGED chld
       \/ (\A b \in linked : b[1] # i[1]) /\ KidEnds(i)
    /\ UNCHANGED <<kidUnchanged, box, unread>>
\* Faulty variant of KidFailure: the client is not told.
KidFailureSilent(i) ==
    /\ kid[i].st = "open" /\ Blocks[asked[i]] = -1 /\ KidEnds(i)
    /\ UNCHANGED <<kidUnchanged, box, unread>>
\* The file cannot be opened.
KidFailure(i) ==
    /\ kid[i].st = "open" /\ Blocks[asked[i]] = -1 /\ KidEnds(i)
    /\ IF Removed(kid[i].box) THEN UNCHANGED box ELSE Put(kid[i].box, Failure)
    /\ UNCHANGED <<kidUnchanged, unread>>

\* Faulty variant of KidRead: the end of the file is sent like a block (>= 0).
KidReadPastEnd(i) ==
    /\ kid[i].st = "open" /\ Blocks[asked[i]] # -1
    /\ KidGoto(i, "send") \/ KidGoto(i, "end")
    /\ UNCHANGED <<kidUnchanged, box, unread>>
\* The loop ends at the end of the file, or at a read error.
KidRead(i) ==
    /\ kid[i].st = "open" /\ Blocks[asked[i]] # -1
    /\ \/ kid[i].pos < Blocks[asked[i]] /\ KidGoto(i, "send") /\ UNCHANGED unread
       \/ kid[i].pos = Blocks[asked[i]] /\ KidGoto(i, "end") /\ UNCHANGED unread
       \/ kid[i].pos < Blocks[asked[i]] /\ KidGoto(i, "end") /\ unread' = unread \cup {i}
    /\ UNCHANGED <<kidUnchanged, box>>

\* The block read is in the queue.
KidSent(i) == kid' = [kid EXCEPT ![i].st = "open", ![i].pos = @ + 1] /\ UNCHANGED chld
\* Faulty variant of KidSend: a block that finds no room is left out (IPC_NOWAIT).
KidSendNoWait(i) ==
    /\ kid[i].st = "send" /\ KidSent(i)
    /\ LET m == Data(asked[i], kid[i].pos + 1)
       IN IF ~Removed(kid[i].box) /\ Fits(kid[i].box, m) THEN Put(kid[i].box, m) ELSE UNCHANGED box
    /\ UNCHANGED <<kidUnchanged, unread>>
\* A block waits for room; if the queue is gone the loop ends.
KidSend(i) ==
    /\ kid[i].st = "send"
    /\ \/ Put(kid[i].box, Data(asked[i], kid[i].pos + 1)) /\ KidSent(i)
       \/ Removed(kid[i].box) /\ KidGoto(i, "end") /\ UNCHANGED box
    /\ UNCHANGED <<kidUnchanged, unread>>
KidEnd(i) ==
    /\ kid[i].st = "end" /\ KidEnds(i)
    /\ IF Removed(kid[i].box) THEN UNCHANGED box ELSE Put(kid[i].box, End)
    /\ UNCHANGED <<kidUnchanged, unread>>

KidStep(i) == KidOpenQueue(i) \/ KidFailure(i) \/ KidRead(i) \/ KidSend(i) \/ KidEnd(i)

-----------------------------------------------------------------------------
(* Clients.                                                                *)

Me(p) == <<p, runs[p]>>
Waiting(p) == cpc[p] \in {"first", "more"}
Goto(p, l) == cpc' = [cpc EXCEPT ![p] = l]

\* The server's identifier, or its open queue, and then a queue of its own.  A
\* client without the one, or with the queue of a killed client in its way
\* (mq_open with O_EXCL), ends.
ClStart(p) ==
    /\ cpc[p] = "idle" /\ runs[p] < MaxRuns[p] /\ runs' = [runs EXCEPT ![p] = @ + 1]
    /\ LET s == IF Sysv THEN file ELSE skey IN
       IF s \in {0, Empty} \/ (~Sysv /\ \E b \in linked : b[1] = p) THEN UNCHANGED <<cpc, sid, asked, linked>>
       ELSE /\ sid' = [sid EXCEPT ![p] = s] /\ Goto(p, "send") /\ linked' = linked \cup {Me(p)'}
            /\ \E f \in Asks[p] : asked' = [asked EXCEPT ![Me(p)'] = f]
    /\ UNCHANGED <<variant, server, skey, sq, file, kid, got, box, history>>

\* The exit handler removes the client's queue.
ClExit(p) ==
    /\ Goto(p, "idle") /\ linked' = linked \ {Me(p)} /\ got' = [got EXCEPT ![p] = <<>>]
    /\ UNCHANGED <<variant, server, skey, sq, file, kid, runs, sid, asked, killed, unread>>

\* A request to a queue that was removed: an error, or nobody will read it.
ClSend(p) ==
    /\ cpc[p] = "send"
    /\ \/ /\ sid[p] = skey /\ Len(sq) < ServerCap /\ sq' = Append(sq, Me(p)) /\ Goto(p, "first")
          /\ UNCHANGED <<variant, server, skey, file, kid, runs, sid, asked, got, linked, box, history>>
       \/ /\ sid[p] # skey /\ ~Sysv /\ Goto(p, "first")
          /\ UNCHANGED <<variant, server, skey, sq, file, kid, runs, sid, asked, got, linked, box, history>>
       \/ sid[p] # skey /\ Sysv /\ ClExit(p) /\ UNCHANGED <<box, done>>

\* Faulty variant of ClReceive: one message is taken for the whole answer.
ClReceiveOne(p) ==
    /\ Waiting(p) /\ box[Me(p)] # <<>> /\ ClExit(p)
    /\ box' = [box EXCEPT ![Me(p)] = Tail(@)] /\ UNCHANGED done
\* The first message may be FAILURE; after it any message but DATA is the end.
ClReceive(p) ==
    /\ Waiting(p) /\ box[Me(p)] # <<>>
    /\ LET m == Head(box[Me(p)]) IN
       /\ box' = [box EXCEPT ![Me(p)] = Tail(@)]
       /\ \/ /\ m.type = "DATA" /\ Goto(p, "more")
             /\ got' = [got EXCEPT ![p] = Append(@, m)]
             /\ UNCHANGED <<variant, server, skey, sq, file, kid, runs, sid, asked, linked, history>>
          \/ /\ m.type # "DATA" /\ ClExit(p)
             /\ done' = IF m.type = "FAILURE" /\ cpc[p] = "first" THEN done
                        ELSE done \cup {[id |-> Me(p), got |-> got[p]]}

\* A killed client leaves its queue until somebody removes it.
ClKilled(p) ==
    /\ p \in Mortal \ killed /\ cpc[p] # "idle"
    /\ Goto(p, "idle") /\ killed' = killed \cup {p} /\ got' = [got EXCEPT ![p] = <<>>]
    /\ UNCHANGED <<variant, server, skey, sq, file, kid, runs, sid, asked, linked, box, unread, done>>
Cleanup(b) ==
    /\ b \in linked /\ (cpc[b[1]] = "idle" \/ b # Me(b[1])) /\ linked' = linked \ {b}
    /\ box' = IF Sysv THEN [box EXCEPT ![b] = <<>>] ELSE box
    /\ UNCHANGED <<variant, server, skey, sq, file, kid, clients, history>>

ClStep(p) == ClSend(p) \/ ClReceive(p)

\* The server was killed before, and somebody has removed all, part or nothing of
\* what it left.
Init ==
    /\ variant \in {"sysv", "posix"}
    /\ spc = "down" /\ starts = 1 /\ cur = None /\ hand = FALSE /\ chld = FALSE /\ offspring = {}
    /\ skey \in {0, 1} /\ sq = <<>> /\ file \in IF Sysv THEN {0, Empty, 1} ELSE {0}
    /\ kid = [i \in Id |-> [st |-> "none", box |-> i, pos |-> 0]]
    /\ cpc = [p \in Pid |-> "idle"] /\ runs = [p \in Pid |-> 0] /\ sid = [p \in Pid |-> 0]
    /\ asked \in [Id -> {CHOOSE f \in File : TRUE}] /\ got = [p \in Pid |-> <<>>]
    /\ linked = {} /\ box = [i \in Id |-> <<>>]
    /\ killed = {} /\ unread = {} /\ done = {}

Next == \/ SvCreate \/ SvStep \/ SvKilled \/ RemoveQueue \/ RemoveIdFile
        \/ \E i \in Id : KidStep(i) \/ Cleanup(i)
        \/ \E p \in Pid : ClStart(p) \/ ClStep(p) \/ ClKilled(p)
Spec == Init /\ [][Next]_vars

\* Every process goes on; nobody need start a server or a client, or clean up.
FairSpec == /\ Spec /\ WF_vars(SvStep)
            /\ \A i \in Id : WF_vars(KidStep(i))
            /\ \A p \in Pid : WF_vars(ClStep(p))

-----------------------------------------------------------------------------
(* Properties.                                                             *)

Messages == [type : {"DATA"}, file : File, block : Nat] \cup {End, Failure}

\* The programs stay within their types and no queue beyond its limit
\* (svmsg_file_server.c:35, 52_3/svmsg_file_client.c:31).
ServerTypes ==
    /\ spc \in {"down", "idfile", "idwrite", "receive", "fork", "rmid", "unlink"}
    /\ (spc = "fork" => cur \in Id) /\ hand \in BOOLEAN /\ chld \in BOOLEAN
    /\ offspring \subseteq Serving \cup Zombies
    /\ starts \in Nat /\ skey \in 0..starts /\ file \in (0..starts) \cup {Empty}
    /\ sq \in Seq(Id) /\ Len(sq) <= ServerCap
KidTypes ==
    /\ kid \in [Id -> [st : {"none", "queue", "open", "send", "end", "zombie", "gone"}, box : Id, pos : Nat]]
    /\ \A i \in Id : /\ kid[i].pos \in 0..Blocks[asked[i]] \cup {0}
                     /\ kid[i].st = "send" => kid[i].pos < Blocks[asked[i]]
BoxTypes ==
    /\ linked \subseteq Id /\ box \in [Id -> Seq(Messages)]
    /\ \A i \in Id : Used(box[i]) <= Cap
ClientTypes ==
    /\ cpc \in [Pid -> {"idle", "send", "first", "more"}]
    /\ runs \in [Pid -> Nat] /\ sid \in [Pid -> Nat]
    /\ \A p \in Pid : runs[p] <= MaxRuns[p] /\ (cpc[p] # "idle" => Me(p) \in Id)
    /\ asked \in [Id -> File] /\ got \in [Pid -> Seq(Messages)]
TypeOK == ServerTypes /\ KidTypes /\ BoxTypes /\ ClientTypes

\* A client that reports a file has the whole of the file it asked for, in
\* order: less than that only after a read error, which the server does not tell
\* (svmsg_file_server.c:30), and anything else only with a POSIX queue whose pid
\* is that of a killed client (52_3/svmsg_file_server.c:26).
WholeFile ==
    \A d \in done :
        \/ ~Sysv /\ d.id[1] \in killed
        \/ /\ \A n \in DOMAIN d.got : d.got[n] = Data(asked[d.id], n)
           /\ Len(d.got) = Blocks[asked[d.id]] \/ d.id \in unread

\* No two children send to one queue, and none to a queue that a client has
\* finished with: so the blocks of two files do not mix.  A killed client's pid
\* is the exception with POSIX queues (52_3/svmsg_file_server.c:25).
OneSender ==
    \A i \in Serving : \/ ~Sysv /\ i[1] \in killed
                       \/ /\ \A j \in Serving : kid[j].box = kid[i].box => j = i
                          /\ i[1] \in killed \/ (Waiting(i[1]) /\ i = Me(i[1]))

\* A child ends, unless its client was killed: only such a client leaves a queue
\* that fills up, and the child waiting (svmsg_file_server.c:35).
ChildrenEnd == \A i \in Id : i \in Serving ~> (i \notin Serving \/ i[1] \in killed)

\* A client whose request has a child, or is in the queue of a running server,
\* gets its answer, unless the server ends before it makes the child: the
\* request is then lost without a word (svmsg_file_server.c:89, 105).
Up == spc \in {"receive", "fork"}
Queued(p) == Up /\ (cur = Me(p) \/ \E k \in DOMAIN sq : sq[k] = Me(p))
Answered ==
    \A p \in Pid : Waiting(p) /\ (Me(p) \in Serving \/ Queued(p))
                      ~> (~Waiting(p) \/ (~Up /\ kid[Me(p)].st = "none"))

\* No dead child is forgotten: while there is one, SIGCHLD is pending or the
\* handler still runs, however many signals were merged into one (grimReaper,
\* svmsg_file_server.c:9, 52_3/svmsg_file_server.c:10).
NoForgottenChild == Zombies # {} => chld \/ hand
=============================================================================
