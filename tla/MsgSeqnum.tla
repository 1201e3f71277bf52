------------------------------ MODULE MsgSeqnum ------------------------------
(***************************************************************************)
(* Sequence numbers over message queues: Exercise/46_2 (System V) and      *)
(* Exercise/52/52_2 (POSIX).                                               *)
(*                                                                         *)
(* The System V programs share one bounded queue: requests have type 1,    *)
(* an answer has the client's pid as its type, and the queue's identifier  *)
(* is in a file.  The POSIX programs have a queue for requests, which      *)
(* nobody removes, and one for each client, named by its pid.              *)
(*                                                                         *)
(* Clients may be killed, and a later process may have the same pid.       *)
(***************************************************************************)
EXTENDS Integers, Sequences, FiniteSets, SequencesExt

CONSTANTS Pid,        \* process identifiers of clients
          Mortal,     \* those that may be killed, once each
          Len1,       \* lengths asked for
          Room,       \* msg_qbytes, in units of an answer (4 bytes); a request is two
          MaxMsg,     \* mq_maxmsg
          MaxStarts,  \* bound: how often the server is started
          MaxRuns     \* bound: client processes with one pid

ASSUME MsgSeqnumAssumption ==
    /\ IsFiniteSet(Pid) /\ Mortal \subseteq Pid
    /\ Len1 \subseteq Nat \ {0} /\ \E n \in Len1 : \A l \in Len1 : l <= n
    /\ Room \in Nat /\ MaxMsg \in Nat \ {0, 1}
    /\ MaxStarts \in Nat /\ MaxRuns \in Nat

VARIABLES variant,            \* "sysv" or "posix"
          spc, starts,        \* the server
          era,                \* how often it was started with success
          seqNum, req,
          mine, cfd,          \* its request queue; the client queue it opened
          queues,             \* the request queues made so far
          file,               \* the identifier in SERVER_FILE, 0 when it has none
          cpc, runs, cid, len,
          cq,                 \* POSIX client queues: at most one for a pid
          killed,             \* history: pids of killed clients
          granted,            \* history: ranges sent, as in SeqService
          answers             \* history: ranges received

server  == <<spc, starts, era, seqNum, req, mine, cfd>>
clients == <<cpc, runs, cid, len>>
history == <<killed, granted, answers>>
vars == <<variant, server, queues, file, clients, cq, history>>

Sysv == variant = "sysv"
Request(p, l) == [kind |-> "request", pid |-> p, len |-> l]
Answer(p, l, n) == [kind |-> "answer", pid |-> p, len |-> l, from |-> n, era |-> era]
NoRequest == [kind |-> "none"]

\* The requests in a queue and the answers for a pid; each is taken in order.
RequestsIn(q) == {k \in DOMAIN q : q[k].kind = "request"}
AnswersIn(q, p) == {k \in DOMAIN q : q[k].kind = "answer" /\ q[k].pid = p}
\* msgsnd counts bytes, mq_send messages; a request is as long as two answers.
Used(q) == Len(q) + Cardinality(RequestsIn(q))
Fits(q, m) == IF Sysv THEN Used(Append(q, m)) <= Room ELSE Len(q) < MaxMsg
First(k, ks) == k \in ks /\ \A j \in ks : k <= j
Send(k, m) == Fits(queues[k], m) /\ queues' = [queues EXCEPT ![k] = Append(@, m)]

-----------------------------------------------------------------------------
(* The server.                                                             *)

Running == spc \in {"receive", "open", "send"}
Starting == spc = "down" /\ starts < MaxStarts /\ starts' = starts + 1

SvMsgget ==
    /\ Sysv /\ Starting
    /\ queues' = Append(queues, <<>>) /\ mine' = Len(queues) + 1 /\ spc' = "truncate"
    /\ UNCHANGED <<variant, era, seqNum, req, cfd, file, clients, cq, history>>
SvTruncate ==
    /\ spc = "truncate" /\ file' = 0 /\ spc' = "publish"
    /\ UNCHANGED <<variant, starts, era, seqNum, req, mine, cfd, queues, clients, cq, history>>
SvPublish ==
    /\ spc = "publish" /\ file' = mine /\ spc' = "receive"
    /\ era' = era + 1 /\ seqNum' = 0
    /\ UNCHANGED <<variant, starts, req, mine, cfd, queues, clients, cq, history>>

\* mq_open(O_EXCL): the queue of an earlier server is in the way.
SvMqOpen ==
    /\ ~Sysv /\ Starting
    /\ IF queues = <<>>
       THEN queues' = Append(queues, <<>>) /\ mine' = 1 /\ spc' = "receive" /\ era' = era + 1 /\ seqNum' = 0
       ELSE UNCHANGED <<queues, mine, spc, era, seqNum>>
    /\ UNCHANGED <<variant, req, cfd, file, clients, cq, history>>

\* Faulty variant of SvReceive: any type of message is received (msgtyp 0).
SvReceiveAny ==
    /\ spc = "receive" /\ queues[mine] # <<>>
    /\ req' = Head(queues[mine]) /\ queues' = [queues EXCEPT ![mine] = Tail(@)]
    /\ spc' = IF Sysv THEN "send" ELSE "open"
    /\ UNCHANGED <<variant, starts, era, seqNum, mine, cfd, file, clients, cq, history>>
SvReceive ==
    /\ spc = "receive"
    /\ \E k \in 1..Len(queues[mine]) :
        /\ First(k, RequestsIn(queues[mine]))
        /\ req' = queues[mine][k]
        /\ queues' = [queues EXCEPT ![mine] = RemoveAt(@, k)]
    /\ spc' = IF Sysv THEN "send" ELSE "open"
    /\ UNCHANGED <<variant, starts, era, seqNum, mine, cfd, file, clients, cq, history>>

\* A client without a queue is given up; no number is used.
SvOpenClient ==
    /\ spc = "open"
    /\ IF cq[req.pid] = {} THEN spc' = "receive" /\ UNCHANGED cfd
       ELSE spc' = "send" /\ \E c \in cq[req.pid] : cfd' = c.run
    /\ UNCHANGED <<variant, starts, era, seqNum, req, mine, queues, file, clients, cq, history>>

Grant == [pid |-> req.pid, era |-> era, from |-> seqNum, len |-> req.len]
SendAnswer(m) ==
    IF Sysv THEN Send(mine, m) /\ UNCHANGED cq
    ELSE /\ \A c \in cq[req.pid] : Fits(c.msgs, m)
         /\ cq' = [cq EXCEPT ![req.pid] =
                {IF c.run = cfd THEN [run |-> cfd, msgs |-> Append(c.msgs, m)] ELSE c : c \in @}]
         /\ UNCHANGED queues

\* Faulty variant of SvSend: the number is not advanced by the length asked for.
SvSendOne ==
    /\ spc = "send" /\ SendAnswer(Answer(req.pid, req.len, seqNum))
    /\ seqNum' = seqNum + 1 /\ granted' = granted \cup {Grant} /\ spc' = "receive"
    /\ UNCHANGED <<variant, starts, era, req, mine, cfd, file, clients, killed, answers>>

\* The answer, which waits for room; then the number is advanced.  A POSIX
\* queue removed since it was opened takes the answer with it.
SvSend ==
    /\ spc = "send" /\ SendAnswer(Answer(req.pid, req.len, seqNum))
    /\ seqNum' = seqNum + req.len /\ granted' = granted \cup {Grant} /\ spc' = "receive"
    /\ UNCHANGED <<variant, starts, era, req, mine, cfd, file, clients, killed, answers>>

\* Queues outlive the server.
SvKilled ==
    /\ spc # "down" /\ spc' = "down" /\ req' = NoRequest
    /\ UNCHANGED <<variant, starts, era, seqNum, mine, cfd, queues, file, clients, cq, history>>

SvStep == SvMsgget \/ SvTruncate \/ SvPublish \/ SvMqOpen \/ SvReceive \/ SvOpenClient \/ SvSend

-----------------------------------------------------------------------------
(* Clients.                                                                *)

Begin(p) == cpc[p] = "idle" /\ runs[p] < MaxRuns /\ runs' = [runs EXCEPT ![p] = @ + 1]
Goto(p, l) == cpc' = [cpc EXCEPT ![p] = l]

\* The identifier is read from the file; without one the client ends.
ClReadFile(p) ==
    /\ Sysv /\ Begin(p)
    /\ IF file = 0 THEN UNCHANGED <<cpc, cid, len>>
       ELSE \E l \in Len1 : /\ len' = [len EXCEPT ![p] = l] /\ cid' = [cid EXCEPT ![p] = file]
                            /\ Goto(p, "send")
    /\ UNCHANGED <<variant, server, queues, file, cq, history>>

\* The client's own queue first; one left by a killed client is in the way.
ClCreateQueue(p) ==
    /\ ~Sysv /\ Begin(p)
    /\ IF cq[p] # {} THEN UNCHANGED <<cpc, len, cq>>
       ELSE \E l \in Len1 : /\ len' = [len EXCEPT ![p] = l] /\ cq' = [cq EXCEPT ![p] = {[run |-> runs[p], msgs |-> <<>>]}]
                            /\ Goto(p, "open")
    /\ UNCHANGED <<variant, server, queues, file, cid, history>>
ClOpenServer(p) ==
    /\ cpc[p] = "open"
    /\ IF queues = <<>> THEN Goto(p, "idle") /\ cq' = [cq EXCEPT ![p] = {}] /\ UNCHANGED cid
       ELSE Goto(p, "send") /\ cid' = [cid EXCEPT ![p] = 1] /\ UNCHANGED cq
    /\ UNCHANGED <<variant, server, queues, file, runs, len, history>>

\* Faulty variant of ClSend: a request that was sent may be sent again.
ClSendAgain(p) ==
    /\ cpc[p] = "send" /\ Send(cid[p], Request(p, len[p])) /\ (Goto(p, "wait") \/ UNCHANGED cpc)
    /\ UNCHANGED <<variant, server, file, runs, cid, len, cq, history>>
ClSend(p) ==
    /\ cpc[p] = "send" /\ Send(cid[p], Request(p, len[p])) /\ Goto(p, "wait")
    /\ UNCHANGED <<variant, server, file, runs, cid, len, cq, history>>

Received(p, m) == answers' = answers \cup {[pid |-> p, run |-> runs[p], asked |-> len[p], era |-> m.era,
                                            from |-> m.from, len |-> m.len]}
\* Faulty variant of ClReceive: any answer is taken.
ClReceiveAny(p) ==
    /\ cpc[p] = "wait" /\ Sysv
    /\ \E k \in 1..Len(queues[cid[p]]) :
        /\ queues[cid[p]][k].kind = "answer" /\ Received(p, queues[cid[p]][k])
        /\ queues' = [queues EXCEPT ![cid[p]] = RemoveAt(@, k)]
    /\ Goto(p, "idle")
    /\ UNCHANGED <<variant, server, file, runs, cid, len, cq, killed, granted>>

\* The first answer of its type, or the first of its queue, which it removes.
ClReceive(p) ==
    /\ cpc[p] = "wait"
    /\ \/ /\ Sysv
          /\ \E k \in 1..Len(queues[cid[p]]) :
                /\ First(k, AnswersIn(queues[cid[p]], p))
                /\ Received(p, queues[cid[p]][k])
                /\ queues' = [queues EXCEPT ![cid[p]] = RemoveAt(@, k)]
          /\ UNCHANGED cq
       \/ /\ ~Sysv
          /\ \E c \in cq[p] : c.msgs # <<>> /\ Received(p, Head(c.msgs))
          /\ cq' = [cq EXCEPT ![p] = {}] /\ UNCHANGED queues
    /\ Goto(p, "idle")
    /\ UNCHANGED <<variant, server, file, runs, cid, len, killed, granted>>

\* A killed client leaves its messages, and its queue until somebody removes it.
ClKilled(p) ==
    /\ p \in Mortal \ killed /\ cpc[p] # "idle"
    /\ Goto(p, "idle") /\ killed' = killed \cup {p}
    /\ UNCHANGED <<variant, server, queues, file, runs, cid, len, cq, granted, answers>>
Cleanup(p) ==
    /\ cpc[p] = "idle" /\ cq[p] # {} /\ cq' = [cq EXCEPT ![p] = {}]
    /\ UNCHANGED <<variant, server, queues, file, clients, history>>

ClStep(p) == ClOpenServer(p) \/ ClSend(p) \/ ClReceive(p)

Init ==
    /\ variant \in {"sysv", "posix"}
    /\ spc = "down" /\ starts = 0 /\ era = 0 /\ seqNum = 0 /\ req = NoRequest /\ mine = 0 /\ cfd = 0
    /\ queues = <<>> /\ file = 0
    /\ cpc = [p \in Pid |-> "idle"] /\ runs = [p \in Pid |-> 0]
    /\ cid = [p \in Pid |-> 0] /\ len = [p \in Pid |-> 0]
    /\ cq = [p \in Pid |-> {}]
    /\ killed = {} /\ granted = {} /\ answers = {}

Next == \/ SvStep \/ SvKilled
        \/ \E p \in Pid : \/ ClReadFile(p) \/ ClCreateQueue(p) \/ ClStep(p)
                          \/ ClKilled(p) \/ Cleanup(p)
Spec == Init /\ [][Next]_vars

\* The server goes on once it is started, and so does each client; msgsnd wakes
\* the senders that wait for room.
FairSpec == /\ Spec
            /\ WF_vars(SvTruncate \/ SvPublish \/ SvReceive \/ SvOpenClient \/ SvSend)
            /\ \A p \in Pid : WF_vars(ClOpenServer(p)) /\ SF_vars(ClSend(p)) /\ WF_vars(ClReceive(p))

-----------------------------------------------------------------------------
(* Properties.                                                             *)

Requests == [kind : {"request"}, pid : Pid, len : Len1]
Answers == [kind : {"answer"}, pid : Pid, len : Len1, from : Nat, era : Nat]

\* The programs stay within their types and no queue beyond its limit
\* (msg_qbytes, mq_maxmsg: msg_seqnum_server.c:33, mq_seqnum_server.c:17).
TypeOK ==
    /\ spc \in {"down", "truncate", "publish", "receive", "open", "send"}
    /\ era \in Nat /\ seqNum \in Nat /\ req \in Requests \cup {NoRequest}
    /\ mine \in 0..Len(queues) /\ file \in 0..Len(queues)
    /\ queues \in Seq(Seq(Requests \cup Answers))
    /\ \A k \in DOMAIN queues : IF Sysv THEN Used(queues[k]) <= Room ELSE Len(queues[k]) <= MaxMsg
    /\ cpc \in [Pid -> {"idle", "open", "send", "wait"}]
    /\ \A p \in Pid : /\ Cardinality(cq[p]) <= 1
                       /\ \A c \in cq[p] : c.msgs \in Seq(Answers) /\ Len(c.msgs) <= MaxMsg

Numbers(a) == a.from .. (a.from + a.len - 1)

\* No number reaches two clients of one server process, whoever was killed and
\* whichever pids come again (msg_seqnum_server.c:36, mq_seqnum_server.c:43).
NoNumberTwice ==
    \A a, b \in answers : a # b /\ a.era = b.era => Numbers(a) \cap Numbers(b) = {}

\* A client gets as many numbers as it asked for, unless one with its pid was
\* killed before: the answer to that one is still in the queue, or on its way
\* (msg_seqnum_client.c:31, mq_seqnum_client.c:31).
AnswerFitsRequest ==
    \A a \in answers : a.asked = a.len \/ a.pid \in killed

\* A server that shares its queue with the requests never waits to send its
\* answer if the queue has room for a request of every other client, those
\* that were killed counted, and for one answer; a client's own queue always
\* has room (msg_seqnum_server.c:33, mq_seqnum_server.c:38).
Senders == Cardinality(Pid) + Cardinality(killed)
AnswersHaveRoom ==
    spc = "send" =>
        IF Sysv THEN Room >= 2 * (Senders - 1) + 1 => Used(queues[mine]) < Room
        ELSE \A c \in cq[req.pid] : Len(c.msgs) < MaxMsg

\* A client whose request the server can receive is answered, or is given up
\* only because it was killed, as long as that server runs.
Served(p) == cpc[p] = "wait" /\ Running /\ cid[p] = mine
AnsweredWhileUp == \A p \in Pid : Served(p) ~> ~Served(p)

\* Each server process hands out consecutive, disjoint ranges; every start begins at 0.
Service == INSTANCE SeqService WITH
    Pid <- Pid, MaxLen <- CHOOSE n \in Len1 : \A l \in Len1 : l <= n,
    MaxRepeat <- Cardinality(Pid) * MaxRuns,
    up <- Running, era <- era, next <- IF Running THEN seqNum ELSE 0, granted <- granted
ImplementsService == Service!Spec
=============================================================================
