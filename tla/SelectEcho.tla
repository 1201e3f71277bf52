------------------------------ MODULE SelectEcho ------------------------------
(***************************************************************************)
(* The echo server of Exercise/63/2/echo_sv.c: one process, one select()   *)
(* over a listening socket, a datagram socket and a table of connections.  *)
(*                                                                         *)
(* What select() reports is a snapshot.  Each round the server accepts at  *)
(* most one connection, echoes one datagram and reads each ready           *)
(* connection once, while clients go on connecting, sending and closing.   *)
(* The sockets block: a write to a client that does not read waits for it. *)
(***************************************************************************)
EXTENDS Integers, Sequences, FiniteSets, FiniteSetsExt, Functions

CONSTANTS Client,      \* TCP clients, each connects once
          Resetting,   \* those that may reset their connection
          Silent,      \* those that never read what comes back
          MaxConn,     \* MAX_CONN_FD
          Room,        \* pieces the kernel holds for a client that has not read them
          MaxSend,     \* bound: how many pieces of data each client sends
          MaxDgram     \* bound: how many datagrams arrive

ASSUME SelectAssumption ==
    /\ IsFiniteSet(Client)
    /\ Resetting \subseteq Client
    /\ Silent \subseteq Client
    /\ MaxConn \in Nat \ {0}
    /\ Room \in Nat \ {0}
    /\ MaxSend \in [Client -> Nat]
    /\ MaxDgram \in Nat

VARIABLES spc,        \* the server: "select", "listen", "dgram", "scan", "write", "exited"
          conn_fds,   \* the connection table: a descriptor, or -1
          nfds, rfdset, nready,
          i,          \* the index of the scan
          left,       \* pieces in buf still to be written to conn_fds[i]
          owner,      \* the kernel's descriptors of connections: whose each is
          backlog,    \* connections not yet accepted
          dgrams,     \* datagrams not yet received
          dsent,      \* history: datagrams that arrived
          cstate,     \* each client: "idle", "connected", "closed", "reset"
          sent,       \* history: pieces it sent
          inbox,      \* pieces the server has not read
          outbox,     \* pieces written back, not yet read by the client
          received    \* history: pieces the client read

round   == <<conn_fds, nfds, rfdset, nready>>
sockets == <<owner, backlog, dgrams, dsent>>
clients == <<cstate, sent, received>>
data    == <<inbox, outbox>>
vars == <<spc, round, i, left, sockets, clients, data>>

\* Descriptors: 0 is the listening socket, 1 the datagram socket.
lfd == 0
dfd == 1
ConnFds == 2..(Cardinality(Client) + 1)
Slots == 0..(MaxConn - 1)
Open == {lfd, dfd} \cup DOMAIN owner

Occupied == {j \in Slots : conn_fds[j] # -1}
TableFull == Occupied = Slots

\* A connection is readable when data, its end or an error is waiting.
Readable(c) == inbox[c] > 0 \/ cstate[c] \in {"closed", "reset"}
Ready(fd) == \/ fd = lfd /\ backlog # <<>>
             \/ fd = dfd /\ dgrams > 0
             \/ fd \in DOMAIN owner /\ Readable(owner[fd])

Init ==
    /\ spc = "select"
    /\ conn_fds = [j \in Slots |-> -1]
    /\ nfds = dfd + 1 /\ rfdset = {} /\ nready = 0 /\ i = 0 /\ left = 0
    /\ owner = [fd \in {} |-> lfd]
    /\ backlog = <<>> /\ dgrams = 0 /\ dsent = 0
    /\ cstate = [c \in Client |-> "idle"]
    /\ sent = [c \in Client |-> 0]
    /\ inbox = [c \in Client |-> 0]
    /\ outbox = [c \in Client |-> 0]
    /\ received = [c \in Client |-> 0]

-----------------------------------------------------------------------------
(* The server.                                                             *)

\* The descriptors handed to select(): what the last round left in rfdset,
\* the two sockets and the table.  One that is not open would end the server
\* (EBADF); TableMatchesKernel says that there is none.
Watched == {fd \in rfdset \cup {lfd, dfd} \cup {conn_fds[j] : j \in Occupied} : fd < nfds}

Select ==
    /\ spc = "select"
    /\ \E fd \in Watched : Ready(fd)
    /\ rfdset' = {fd \in Watched : Ready(fd)}
    /\ nready' = Cardinality(rfdset')
    /\ spc' = "listen"
    /\ UNCHANGED <<conn_fds, nfds, i, left, sockets, clients, data>>

\* After one of the ready descriptors: the round ends when none is left.
OneLess(then) ==
    /\ nready' = nready - 1
    /\ spc' = IF nready' = 0 THEN "select" ELSE then

\* Nothing to accept.
NoAccept ==
    /\ spc = "listen" /\ lfd \notin rfdset
    /\ spc' = "dgram"
    /\ UNCHANGED <<round, i, left, sockets, clients, data>>

\* No place in the table: back to select().
NoPlace ==
    /\ spc = "listen" /\ lfd \in rfdset
    /\ TableFull
    /\ spc' = "select"
    /\ UNCHANGED <<round, i, left, sockets, clients, data>>

\* accept() takes the oldest connection and the lowest free descriptor.
connfd == Min(ConnFds \ DOMAIN owner)
Accepting == [fd \in DOMAIN owner \cup {connfd} |->
                IF fd = connfd THEN Head(backlog) ELSE owner[fd]]
\* The first free place of the table.
FreePlace == Min(Slots \ Occupied)

\* Faulty variant of Accept: nfds is not raised.
AcceptNoNfds ==
    /\ spc = "listen" /\ lfd \in rfdset
    /\ ~TableFull
    /\ owner' = Accepting
    /\ conn_fds' = [conn_fds EXCEPT ![FreePlace] = connfd]
    /\ backlog' = Tail(backlog)
    /\ OneLess("dgram")
    /\ UNCHANGED <<nfds, rfdset, i, left, dgrams, dsent, clients, data>>

\* The connection goes into the first free place, and nfds above its descriptor.
Accept ==
    /\ spc = "listen" /\ lfd \in rfdset
    /\ ~TableFull
    /\ owner' = Accepting
    /\ conn_fds' = [conn_fds EXCEPT ![FreePlace] = connfd]
    /\ nfds' = Max({nfds, connfd + 1})
    /\ backlog' = Tail(backlog)
    /\ OneLess("dgram")
    /\ UNCHANGED <<rfdset, i, left, dgrams, dsent, clients, data>>

NoDatagram ==
    /\ spc = "dgram" /\ dfd \notin rfdset
    /\ spc' = "scan"
    /\ UNCHANGED <<round, i, left, sockets, clients, data>>

\* One datagram is received and sent back.
Datagram ==
    /\ spc = "dgram" /\ dfd \in rfdset
    /\ dgrams' = dgrams - 1
    /\ OneLess("scan")
    /\ UNCHANGED <<conn_fds, nfds, rfdset, i, left, owner, backlog, dsent, clients, data>>

\* accept() has no descriptor left, or the datagram cannot be received or
\* sent back at once: errExit.
CallFails ==
    /\ \/ spc = "listen" /\ lfd \in rfdset /\ ~TableFull
       \/ spc = "dgram" /\ dfd \in rfdset
    /\ spc' = "exited"
    /\ UNCHANGED <<round, i, left, sockets, clients, data>>

\* Faulty variant of Advance: i <= MAX_CONN_FD as the condition of the loop.
AdvanceTooFar == IF i + 1 <= MaxConn THEN i' = i + 1 /\ spc' = "scan"
                                     ELSE i' = 0 /\ spc' = "select"

\* The scan goes to the next place of the table.
Advance == IF i + 1 \in Slots THEN i' = i + 1 /\ spc' = "scan"
                              ELSE i' = 0 /\ spc' = "select"

\* Faulty variant of Scanned: no FD_ISSET.
ScannedAlways(j) == conn_fds[j] # -1

Scanned(j) == conn_fds[j] # -1 /\ conn_fds[j] \in rfdset
Peer(j) == owner[conn_fds[j]]

Skip ==
    /\ spc = "scan" /\ ~Scanned(i)
    /\ Advance
    /\ UNCHANGED <<round, left, sockets, clients, data>>

\* What is there is read, or a part of it.
Read ==
    /\ spc = "scan" /\ Scanned(i)
    /\ cstate[Peer(i)] # "reset"
    /\ \E k \in 1..inbox[Peer(i)] :
          left' = k /\ inbox' = [inbox EXCEPT ![Peer(i)] = @ - k]
    /\ spc' = "write"
    /\ UNCHANGED <<round, i, sockets, clients, outbox>>

\* Faulty variant of Write: a short write is taken for a whole one.
WriteShort ==
    /\ spc = "write" /\ cstate[Peer(i)] # "reset"
    /\ outbox[Peer(i)] < Room
    /\ outbox' = [outbox EXCEPT ![Peer(i)] = @ + 1]
    /\ left' = 0
    /\ Advance
    /\ UNCHANGED <<round, sockets, clients, inbox>>

\* write() returns when the kernel has taken all of it.
Write ==
    /\ spc = "write" /\ cstate[Peer(i)] # "reset"
    /\ outbox[Peer(i)] < Room
    /\ outbox' = [outbox EXCEPT ![Peer(i)] = @ + 1]
    /\ left' = left - 1
    /\ IF left' = 0 THEN Advance ELSE UNCHANGED <<spc, i>>
    /\ UNCHANGED <<round, sockets, clients, inbox>>

\* Faulty variant of EndOfFile: no FD_CLR.
EndOfFileNoClear ==
    /\ spc = "scan" /\ Scanned(i)
    /\ inbox[Peer(i)] = 0 /\ cstate[Peer(i)] = "closed"
    /\ owner' = Restrict(owner, DOMAIN owner \ {conn_fds[i]})
    /\ conn_fds' = [conn_fds EXCEPT ![i] = -1]
    /\ Advance
    /\ UNCHANGED <<nfds, rfdset, nready, left, backlog, dgrams, dsent, clients, data>>

\* End of file: the descriptor is closed and its place is free.
EndOfFile ==
    /\ spc = "scan" /\ Scanned(i)
    /\ inbox[Peer(i)] = 0 /\ cstate[Peer(i)] = "closed"
    /\ rfdset' = rfdset \ {conn_fds[i]}
    /\ owner' = Restrict(owner, DOMAIN owner \ {conn_fds[i]})
    /\ conn_fds' = [conn_fds EXCEPT ![i] = -1]
    /\ Advance
    /\ UNCHANGED <<nfds, nready, left, backlog, dgrams, dsent, clients, data>>

\* read() and write() fail on a reset connection, which ends the server.
ConnectionError ==
    /\ \/ spc = "scan" /\ Scanned(i)
       \/ spc = "write"
    /\ cstate[Peer(i)] = "reset"
    /\ spc' = "exited"
    /\ UNCHANGED <<round, i, left, sockets, clients, data>>

-----------------------------------------------------------------------------
(* The clients and the network, from what the server can see of them.      *)

Connect(c) ==
    /\ cstate[c] = "idle"
    /\ cstate' = [cstate EXCEPT ![c] = "connected"]
    /\ backlog' = Append(backlog, c)
    /\ UNCHANGED <<spc, round, i, left, owner, dgrams, dsent, sent, received, data>>

Send(c) ==
    /\ cstate[c] = "connected" /\ sent[c] < MaxSend[c]
    /\ sent' = [sent EXCEPT ![c] = @ + 1]
    /\ inbox' = [inbox EXCEPT ![c] = @ + 1]
    /\ UNCHANGED <<spc, round, i, left, sockets, cstate, received, outbox>>

Receive(c) ==
    /\ c \notin Silent /\ cstate[c] # "reset" /\ outbox[c] > 0
    /\ outbox' = [outbox EXCEPT ![c] = @ - 1]
    /\ received' = [received EXCEPT ![c] = @ + 1]
    /\ UNCHANGED <<spc, round, i, left, sockets, cstate, sent, inbox>>

\* The client's end of the data; it may still read what comes back.
Close(c) ==
    /\ cstate[c] = "connected"
    /\ cstate' = [cstate EXCEPT ![c] = "closed"]
    /\ UNCHANGED <<spc, round, i, left, sockets, sent, received, data>>

Reset(c) ==
    /\ c \in Resetting /\ cstate[c] \in {"connected", "closed"}
    /\ cstate' = [cstate EXCEPT ![c] = "reset"]
    /\ UNCHANGED <<spc, round, i, left, sockets, sent, received, data>>

SendDatagram ==
    /\ dsent < MaxDgram
    /\ dsent' = dsent + 1 /\ dgrams' = dgrams + 1
    /\ UNCHANGED <<spc, round, i, left, owner, backlog, clients, data>>

-----------------------------------------------------------------------------
Server == \/ Select \/ NoAccept \/ NoPlace \/ Accept \/ NoDatagram \/ Datagram
          \/ CallFails \/ Skip \/ Read \/ Write \/ EndOfFile \/ ConnectionError

Next == \/ Server
        \/ SendDatagram
        \/ \E c \in Client :
              Connect(c) \/ Send(c) \/ Receive(c) \/ Close(c) \/ Reset(c)

Spec == Init /\ [][Next]_vars

\* The server runs whenever it can, and a client that is not silent reads
\* what has come; nobody is obliged to send or to close.
FairSpec == /\ Spec
            /\ WF_vars(Server)
            /\ \A c \in Client : WF_vars(Receive(c))

-----------------------------------------------------------------------------
ServerTypes ==
    /\ spc \in {"select", "listen", "dgram", "scan", "write", "exited"}
    /\ conn_fds \in [Slots -> ConnFds \cup {-1}]
    /\ nfds \in 2..(Cardinality(Client) + 2)
    /\ rfdset \subseteq {lfd, dfd} \cup ConnFds
    /\ nready \in 0..(Cardinality(Client) + 2)
    /\ i \in Slots
    /\ left \in Nat /\ (spc = "write" => left > 0)

SocketTypes ==
    /\ DOMAIN owner \subseteq ConnFds /\ owner \in [DOMAIN owner -> Client]
    /\ backlog \in Seq(Client)
    /\ dgrams \in 0..MaxDgram /\ dsent \in 0..MaxDgram

ClientTypes ==
    /\ cstate \in [Client -> {"idle", "connected", "closed", "reset"}]
    /\ sent \in [Client -> Nat] /\ received \in [Client -> Nat]
    /\ inbox \in [Client -> Nat] /\ outbox \in [Client -> Nat]
    /\ \A c \in Client : /\ sent[c] <= MaxSend[c] /\ inbox[c] <= MaxSend[c]
                         /\ received[c] <= MaxSend[c] /\ outbox[c] <= Room

TypeOK == ServerTypes /\ SocketTypes /\ ClientTypes

\* The descriptors in the table are exactly the open connections, no two
\* places hold the same one, and select() watches them all: none is at or
\* above nfds, and nothing closed is left in rfdset (echo_sv.c:61-65,80,115).
TableMatchesKernel ==
    /\ \A j, k \in Occupied : j # k => conn_fds[j] # conn_fds[k]
    /\ {conn_fds[j] : j \in Occupied} = DOMAIN owner
    /\ \A fd \in DOMAIN owner : fd < nfds
    /\ rfdset \subseteq Open

\* The server never waits in accept(), recvfrom() or read(): every descriptor
\* it goes on to take something from in this round still has something to
\* give, though clients moved on since the snapshot (echo_sv.c:70,89,106).
ReadsNeverBlock ==
    /\ spc = "listen" => \A fd \in rfdset : Ready(fd)
    /\ spc = "dgram" /\ dfd \in rfdset => dgrams > 0
    /\ spc = "scan" => \A j \in Slots : (j >= i /\ Scanned(j)) => Readable(Peer(j))

\* Every piece a client sent is accounted for: unread by the server, in its
\* buffer on the way back to that client, or sent back; one buffer serves all
\* connections (echo_sv.c:22,108,121).
NothingLost ==
    \A c \in Client :
        sent[c] = inbox[c] + outbox[c] + received[c]
                    + (IF left > 0 /\ Peer(i) = c THEN left ELSE 0)

HasData(c) == inbox[c] > 0 /\ \E fd \in DOMAIN owner : owner[fd] = c

\* The server waits for a client that does not read.
Stuck == spc = "write" /\ Peer(i) \in Silent /\ outbox[Peer(i)] = Room

\* What an accepted connection sent is read, unless the server ends, waits in
\* write() for a client that never reads, or has a full table while another
\* client waits to be accepted: nothing else can starve a connection.
ReadUnlessStuck ==
    \A c \in Client :
        HasData(c) ~> \/ inbox[c] = 0
                      \/ spc = "exited"
                      \/ Stuck
                      \/ TableFull /\ backlog # <<>>

\* The comment of echo_sv.c:69, that only a moderate amount of I/O is done at
\* a time so that one descriptor does not starve the others: what an accepted
\* connection sent is read, while the server runs.
NoStarvation ==
    \A c \in Client : HasData(c) ~> (inbox[c] = 0 \/ spc = "exited")
=============================================================================
