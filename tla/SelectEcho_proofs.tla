-------------------------- MODULE SelectEcho_proofs --------------------------
(***************************************************************************)
(* Proofs about SelectEcho, for any set of clients, any size of the table, *)
(* any room in the kernel's buffers and any amount of data.                *)
(***************************************************************************)
EXTENDS SelectEcho, FiniteSetTheorems, SequenceTheorems, WellFoundedInduction, TLAPS

\* What accept() relies on: an open connection and one that waits to be accepted
\* never belong to the same client, and no client has two.
Accepted ==
    /\ \A fd, gd \in DOMAIN owner : owner[fd] = owner[gd] => fd = gd
    /\ \A fd \in DOMAIN owner : cstate[owner[fd]] # "idle"
    /\ \A m, n \in DOMAIN backlog : backlog[m] = backlog[n] => m = n
    /\ \A n \in DOMAIN backlog : /\ cstate[backlog[n]] # "idle"
                                 /\ \A fd \in DOMAIN owner : owner[fd] # backlog[n]

\* What a round carries from one of its points to the next: a descriptor select()
\* counted is left, those not yet served are still ready, and the buffer is
\* empty but for the time between read() and write().
Rounds ==
    /\ spc \in {"listen", "dgram"} => nready >= 1
    /\ spc = "dgram" => \A fd \in rfdset : fd # lfd => Ready(fd)
    /\ spc = "write" => \A j \in Slots : (j > i /\ Scanned(j)) => Readable(Peer(j))
    /\ left > 0 => spc \in {"write", "exited"} /\ conn_fds[i] # -1
    /\ dgrams <= dsent

IInv == TypeOK /\ Accepted /\ Rounds /\ TableMatchesKernel /\ ReadsNeverBlock /\ NothingLost

\* The least of some natural numbers, as accept() and the loop over the table pick it.
LEMMA LeastElement ==
    ASSUME NEW S \in SUBSET Nat, S # {}
    PROVE  Min(S) \in S
<1> DEFINE Less == OpToRel(<, Nat)
<1>1. IsWellFoundedOn(Less, Nat)
    BY NatLessThanWellFounded
<1>2. \A x, y \in Nat : y < x => <<y, x>> \in Less
    BY DEF OpToRel
<1> HIDE DEF Less
<1>3. PICK x \in S : \A y \in S : <<y, x>> \notin Less
    BY <1>1, WFMin
<1>4. \A y \in S : ~(y < x)
    BY <1>2, <1>3, Zenon
<1>5. \A y \in S : x <= y
    BY <1>4
<1>6. QED
    BY <1>5 DEF Min

\* Descriptors and places are natural numbers.
LEMMA Numbering ==
    /\ Cardinality(Client) \in Nat
    /\ ConnFds \subseteq Nat /\ lfd \notin ConnFds /\ dfd \notin ConnFds
    /\ IsFiniteSet(ConnFds) /\ Cardinality(ConnFds) = Cardinality(Client)
    /\ Slots \subseteq Nat /\ 0 \in Slots
<1>1. Cardinality(Client) \in Nat
    BY FS_CardinalityType, SelectAssumption
<1>2. IsFiniteSet(ConnFds) /\ Cardinality(ConnFds) = Cardinality(Client)
    BY <1>1, FS_Interval, 2 \in Int, Cardinality(Client) + 1 \in Int DEF ConnFds
<1>3. QED
    BY <1>1, <1>2, SelectAssumption DEF ConnFds, lfd, dfd, Slots

\* The connection in an occupied place is open, and two places have two clients.
LEMMA Peers ==
    ASSUME IInv
    PROVE  /\ \A j \in Occupied : /\ conn_fds[j] \in DOMAIN owner
                                  /\ conn_fds[j] \in ConnFds /\ Peer(j) \in Client
           /\ \A j, k \in Occupied : Peer(j) = Peer(k) => j = k
<1>1. \A j \in Occupied : conn_fds[j] \in DOMAIN owner
    BY DEF IInv, TableMatchesKernel
<1>2. owner \in [DOMAIN owner -> Client] /\ DOMAIN owner \subseteq ConnFds
    BY DEF IInv, TypeOK, SocketTypes
<1>3. QED
    BY <1>1, <1>2 DEF IInv, TableMatchesKernel, Accepted, Peer

\* When a connection waits to be accepted, a descriptor is free: every client
\* connects once.
LEMMA DescriptorFree ==
    ASSUME IInv, backlog # <<>>
    PROVE  connfd \in ConnFds \ DOMAIN owner
<1> DEFINE Rest == Client \ {Head(backlog)}
<1>1. Head(backlog) \in Client /\ 1 \in DOMAIN backlog /\ Head(backlog) = backlog[1]
    BY DEF IInv, TypeOK, SocketTypes
<1>2. IsFiniteSet(Rest) /\ Cardinality(Rest) = Cardinality(Client) - 1
    BY <1>1, SelectAssumption, FS_RemoveElement
<1>3. owner \in Injection(DOMAIN owner, Rest)
    <2>1. owner \in [DOMAIN owner -> Client]
        BY DEF IInv, TypeOK, SocketTypes
    <2>2. \A fd \in DOMAIN owner : owner[fd] \in Rest
        BY <1>1, <2>1 DEF IInv, Accepted
    <2>3. owner \in [DOMAIN owner -> Rest]
        BY <2>1, <2>2
    <2>4. IsInjective(owner)
        BY DEF IInv, Accepted, IsInjective
    <2>5. QED
        BY <2>3, <2>4 DEF Injection
<1>4. Cardinality(DOMAIN owner) <= Cardinality(Rest)
    BY <1>2, <1>3, FS_Injection
<1>5. DOMAIN owner # ConnFds
    BY <1>2, <1>4, Numbering
<1>6. ConnFds \ DOMAIN owner # {}
    BY <1>5 DEF IInv, TypeOK, SocketTypes
<1>7. ConnFds \ DOMAIN owner \in SUBSET Nat
    BY Numbering
<1>8. QED
    BY <1>6, <1>7, LeastElement DEF connfd

\* Everything holds at the start.
LEMMA InitInv == Init => IInv
<1> SUFFICES ASSUME Init PROVE IInv
    OBVIOUS
<1> USE DEF Init
<1>1. ServerTypes
    BY Numbering, SelectAssumption DEF ServerTypes, dfd
<1>2. SocketTypes
    BY SelectAssumption DEF SocketTypes
<1>3. ClientTypes
    BY SelectAssumption DEF ClientTypes
<1>4. Accepted
    BY DEF Accepted
<1>5. Rounds
    BY DEF Rounds
<1>6. Occupied = {}
    BY DEF Occupied
<1>7. TableMatchesKernel /\ ReadsNeverBlock
    BY <1>6 DEF TableMatchesKernel, ReadsNeverBlock
<1>8. NothingLost
    BY DEF NothingLost
<1>9. QED
    BY <1>1, <1>2, <1>3, <1>4, <1>5, <1>7, <1>8 DEF IInv, TypeOK

\* A round that ends or goes on, or a program that exits, takes nothing.
LEMMA StillSteps ==
    ASSUME IInv, NoAccept \/ NoPlace \/ NoDatagram \/ Datagram \/ CallFails \/ Skip \/ ConnectionError
    PROVE  IInv'
<1> USE DEF NoAccept, NoPlace, NoDatagram, Datagram, CallFails, Skip, ConnectionError, OneLess,
            Advance, round, sockets, clients, data
<1> USE Numbering
<1>1. UNCHANGED <<conn_fds, nfds, rfdset, left, owner, backlog, dsent, clients, data>>
    OBVIOUS
<1>2. ServerTypes'
    <2>1. i' \in Slots
        BY DEF IInv, TypeOK, ServerTypes
    <2>2. nready' \in 0..(Cardinality(Client) + 2)
        <3>1. CASE Datagram
            BY <3>1 DEF IInv, TypeOK, ServerTypes, Rounds
        <3>2. CASE ~Datagram
            BY <3>2 DEF IInv, TypeOK, ServerTypes
        <3>3. QED
            BY <3>1, <3>2
    <2>3. spc' \in {"select", "listen", "dgram", "scan", "write", "exited"} /\ spc' # "write"
        OBVIOUS
    <2>4. QED
        BY <1>1, <2>1, <2>2, <2>3 DEF IInv, TypeOK, ServerTypes
<1>3. SocketTypes'
    <2>1. dgrams' \in 0..MaxDgram
        <3>1. CASE Datagram
            BY <3>1, SelectAssumption DEF IInv, TypeOK, SocketTypes, ReadsNeverBlock
        <3>2. CASE ~Datagram
            BY <3>2 DEF IInv, TypeOK, SocketTypes
        <3>3. QED
            BY <3>1, <3>2
    <2>2. QED
        BY <1>1, <2>1 DEF IInv, TypeOK, SocketTypes
<1>4. ClientTypes' /\ Accepted'
    BY <1>1 DEF IInv, TypeOK, ClientTypes, Accepted
<1>5. TableMatchesKernel'
    BY <1>1 DEF IInv, TableMatchesKernel, Occupied, Open
<1>6. Rounds'
    <2>1. (spc' \in {"listen", "dgram"} => nready' >= 1) /\ spc' # "write"
        BY DEF IInv, TypeOK, ServerTypes, Rounds
    <2>2. spc' = "dgram" => (\A fd \in rfdset : fd # lfd => Ready(fd))'
        <3>1. CASE NoAccept
            BY <3>1 DEF IInv, ReadsNeverBlock, Ready, Readable
        <3>2. CASE ~NoAccept
            BY <3>2
        <3>3. QED
            BY <3>1, <3>2
    <2>3. (left > 0 => spc \in {"write", "exited"} /\ conn_fds[i] # -1)'
        BY <1>1 DEF IInv, TypeOK, ServerTypes, Rounds
    <2>4. dgrams' <= dsent'
        BY <1>1 DEF IInv, TypeOK, SocketTypes, Rounds
    <2>5. QED
        BY <2>1, <2>2, <2>3, <2>4 DEF Rounds
<1>7. ReadsNeverBlock'
    <2>1. spc' # "listen"
        OBVIOUS
    <2>2. spc' = "dgram" /\ dfd \in rfdset' => dgrams' > 0
        BY <1>3 DEF IInv, TypeOK, SocketTypes, ReadsNeverBlock, Ready, dfd, lfd
    <2>3. spc' = "scan" => (\A j \in Slots : (j >= i /\ Scanned(j)) => Readable(Peer(j)))'
        <3>1. CASE Skip
            <4>1. SUFFICES ASSUME spc' = "scan", NEW j \in Slots, j >= i', Scanned(j)'
                           PROVE  Readable(Peer(j))'
                OBVIOUS
            <4>2. Scanned(j) /\ j >= i
                BY <1>1, <3>1, <4>1 DEF Scanned, IInv, TypeOK, ServerTypes
            <4>3. QED
                BY <1>1, <3>1, <4>2 DEF Readable, Peer, IInv, ReadsNeverBlock
        <3>2. CASE NoDatagram \/ Datagram
            <4>1. SUFFICES ASSUME spc' = "scan", NEW j \in Slots, Scanned(j)'
                           PROVE  Readable(Peer(j))'
                OBVIOUS
            <4>2. conn_fds[j] \in rfdset /\ j \in Occupied
                BY <1>1, <4>1 DEF Scanned, Occupied
            <4>3. Ready(conn_fds[j]) /\ conn_fds[j] \in ConnFds
                BY <3>2, <4>2, Peers DEF IInv, Rounds
            <4>4. Readable(Peer(j))
                BY <4>3 DEF Ready, Peer
            <4>5. QED
                BY <1>1, <4>4 DEF Readable, Peer
        <3>3. CASE ~(Skip \/ NoDatagram \/ Datagram)
            BY <3>3
        <3>4. QED
            BY <3>1, <3>2, <3>3
    <2>4. QED
        BY <2>1, <2>2, <2>3 DEF ReadsNeverBlock
<1>8. NothingLost'
    <2>1. left > 0 => i' = i
        BY DEF IInv, TypeOK, ServerTypes, Rounds
    <2>2. left' > 0 => i' = i
        BY <1>1, <2>1
    <2>3. QED
        BY <1>1, <2>1 DEF IInv, NothingLost, Peer
<1>9. QED
    BY <1>2, <1>3, <1>4, <1>5, <1>6, <1>7, <1>8 DEF IInv, TypeOK

\* The snapshot: what select() reports is open and ready, and there is some of it.
LEMMA SelectStep == IInv /\ Select => IInv'
<1> SUFFICES ASSUME IInv, Select PROVE IInv'
    OBVIOUS
<1> USE Numbering DEF Select
<1>1. UNCHANGED <<conn_fds, nfds, i, left, sockets, clients, data>> /\ spc' = "listen"
    OBVIOUS
<1>2. Watched \subseteq {lfd, dfd} \cup DOMAIN owner
    BY DEF Watched, IInv, TableMatchesKernel, Open
<1>3. rfdset' \subseteq Watched /\ rfdset' # {} /\ \A fd \in rfdset' : Ready(fd)
    OBVIOUS
<1>4. DOMAIN owner \subseteq ConnFds
    BY DEF IInv, TypeOK, SocketTypes
<1>5. nready' \in 1..(Cardinality(Client) + 2)
    <2>1. rfdset' \in SUBSET (0..(Cardinality(Client) + 1))
        <3>1. \A fd \in rfdset' : fd \in {lfd, dfd} \/ fd \in ConnFds
            BY <1>2, <1>3, <1>4
        <3>2. \A fd \in rfdset' : fd \in 0..(Cardinality(Client) + 1)
            BY <3>1 DEF ConnFds, lfd, dfd
        <3>3. QED
            BY <3>2
    <2>2. /\ IsFiniteSet(0..(Cardinality(Client) + 1))
          /\ Cardinality(0..(Cardinality(Client) + 1)) = Cardinality(Client) + 2
        BY FS_Interval, Cardinality(Client) + 1 \in Int, 0 \in Int
    <2>3. IsFiniteSet(rfdset') /\ Cardinality(rfdset') <= Cardinality(Client) + 2
        BY <2>1, <2>2, FS_Subset
    <2>4. Cardinality(rfdset') \in Nat /\ Cardinality(rfdset') # 0
        BY <1>3, <2>3, FS_CardinalityType, FS_EmptySet
    <2>5. QED
        BY <2>3, <2>4
<1>6. TypeOK'
    BY <1>1, <1>2, <1>3, <1>4, <1>5
       DEF IInv, TypeOK, ServerTypes, SocketTypes, ClientTypes, sockets, clients, data
<1>7. Accepted'
    BY <1>1 DEF IInv, Accepted, sockets, clients
<1>8. Rounds'
    <2>1. nready' >= 1
        BY <1>5
    <2>2. left' = 0
        BY <1>1 DEF IInv, TypeOK, ServerTypes, Rounds
    <2>3. dgrams' <= dsent'
        BY <1>1 DEF IInv, Rounds, sockets
    <2>4. QED
        BY <1>1, <2>1, <2>2, <2>3 DEF Rounds
<1>9. TableMatchesKernel'
    BY <1>1, <1>2, <1>3 DEF IInv, TableMatchesKernel, Occupied, Open, sockets
<1>10. ReadsNeverBlock'
    BY <1>1, <1>3 DEF ReadsNeverBlock, Ready, Readable, sockets, clients, data
<1>11. NothingLost'
    BY <1>1 DEF IInv, NothingLost, Peer, sockets, clients, data
<1>12. QED
    BY <1>6, <1>7, <1>8, <1>9, <1>10, <1>11 DEF IInv

\* accept(): the new connection has a descriptor and a place of its own, below
\* nfds, and the snapshot does not speak of it.
LEMMA AcceptStep == IInv /\ Accept => IInv'
<1> SUFFICES ASSUME IInv, Accept PROVE IInv'
    OBVIOUS
<1> USE Numbering
<1> DEFINE new == connfd
           place == FreePlace
           first == Head(backlog)
<1>1. /\ conn_fds' = [conn_fds EXCEPT ![place] = new]
      /\ nfds' = Max({nfds, new + 1}) /\ backlog' = Tail(backlog)
      /\ UNCHANGED <<rfdset, i, left, dgrams, dsent, cstate, sent, received, inbox, outbox>>
      /\ spc = "listen" /\ lfd \in rfdset
    BY DEF Accept, clients, data
<1>2. owner' = [fd \in DOMAIN owner \cup {new} |-> IF fd = new THEN first ELSE owner[fd]]
    BY DEF Accept, Accepting
<1>3. nready' = nready - 1 /\ spc' = IF nready' = 0 THEN "select" ELSE "dgram"
    BY DEF Accept, OneLess
<1>4. backlog # <<>>
    BY <1>1 DEF IInv, TypeOK, SocketTypes, ReadsNeverBlock, Ready, lfd, dfd, ConnFds
<1>5. new \in ConnFds \ DOMAIN owner
    BY <1>4, DescriptorFree
<1>6. place \in Slots \ Occupied
    <2>1. Slots \ Occupied # {} /\ Slots \ Occupied \in SUBSET Nat
        BY DEF Accept, TableFull, Occupied
    <2>2. QED
        BY <2>1, LeastElement DEF FreePlace
<1>7. /\ first \in Client /\ 1 \in DOMAIN backlog /\ first = backlog[1]
      /\ backlog' \in Seq(Client)
      /\ \A n \in DOMAIN backlog' : n + 1 \in DOMAIN backlog /\ n + 1 # 1
                                    /\ backlog'[n] = backlog[n + 1]
    <2>1. backlog \in Seq(Client)
        BY DEF IInv, TypeOK, SocketTypes
    <2>2. /\ Head(backlog) \in Client /\ Tail(backlog) \in Seq(Client)
          /\ Len(Tail(backlog)) = Len(backlog) - 1
          /\ \A n \in 1..Len(Tail(backlog)) : Tail(backlog)[n] = backlog[n + 1]
        BY <1>4, <2>1, HeadTailProperties
    <2>3. QED
        BY <1>1, <1>4, <2>1, <2>2
<1> HIDE DEF new, place, first
<1>8. /\ nfds' \in 2..(Cardinality(Client) + 2) /\ nfds' >= nfds /\ nfds' > new
    <2>1. nfds \in 2..(Cardinality(Client) + 2) /\ new \in 2..(Cardinality(Client) + 1)
        BY <1>5 DEF IInv, TypeOK, ServerTypes, ConnFds
    <2>2. /\ Max({nfds, new + 1}) \in {nfds, new + 1}
          /\ Max({nfds, new + 1}) >= nfds /\ Max({nfds, new + 1}) >= new + 1
        <3>1. \E x \in {nfds, new + 1} : \A y \in {nfds, new + 1} : x >= y
            BY <2>1
        <3>2. QED
            BY <3>1 DEF Max
    <2>3. QED
        BY <1>1, <2>1, <2>2
<1>9. /\ \A j \in Slots : conn_fds'[j] = IF j = place THEN new ELSE conn_fds[j]
      /\ Occupied' = Occupied \cup {place}
    <2>1. \A j \in Slots : conn_fds'[j] = IF j = place THEN new ELSE conn_fds[j]
        BY <1>1, <1>6 DEF IInv, TypeOK, ServerTypes
    <2>2. new # -1
        BY <1>5
    <2>3. QED
        BY <1>6, <2>1, <2>2 DEF Occupied
<1>10. /\ DOMAIN owner' = DOMAIN owner \cup {new} /\ owner'[new] = first
       /\ \A fd \in DOMAIN owner : owner'[fd] = owner[fd] /\ fd # new
    BY <1>2, <1>5
<1>11. left = 0
    BY <1>1 DEF IInv, TypeOK, ServerTypes, Rounds
<1>12. ServerTypes'
    <2>1. conn_fds' \in [Slots -> ConnFds \cup {-1}]
        BY <1>1, <1>5, <1>6 DEF IInv, TypeOK, ServerTypes
    <2>2. nready' \in 0..(Cardinality(Client) + 2)
        BY <1>1, <1>3 DEF IInv, TypeOK, ServerTypes, Rounds
    <2>3. QED
        BY <1>1, <1>3, <1>8, <1>11, <2>1, <2>2 DEF IInv, TypeOK, ServerTypes
<1>13. SocketTypes'
    <2>1. owner \in [DOMAIN owner -> Client] /\ DOMAIN owner \subseteq ConnFds
        BY DEF IInv, TypeOK, SocketTypes
    <2>2. owner' \in [DOMAIN owner' -> Client] /\ DOMAIN owner' \subseteq ConnFds
        BY <1>2, <1>5, <1>7, <2>1
    <2>3. QED
        BY <1>1, <1>7, <2>2 DEF IInv, TypeOK, SocketTypes
<1>14. ClientTypes'
    BY <1>1 DEF IInv, TypeOK, ClientTypes
<1>15. Accepted'
    <2>1. \A fd \in DOMAIN owner : owner[fd] # first
        BY <1>7 DEF IInv, Accepted
    <2>2. (\A fd, gd \in DOMAIN owner : owner[fd] = owner[gd] => fd = gd)'
        BY <1>10, <2>1 DEF IInv, Accepted
    <2>3. (\A fd \in DOMAIN owner : cstate[owner[fd]] # "idle")'
        BY <1>1, <1>7, <1>10 DEF IInv, Accepted
    <2>4. \A m, n \in DOMAIN backlog' : backlog'[m] = backlog'[n] => m = n
        <3>1. SUFFICES ASSUME NEW m \in DOMAIN backlog', NEW n \in DOMAIN backlog',
                              backlog'[m] = backlog'[n]
                       PROVE  m = n
            OBVIOUS
        <3>2. m + 1 = n + 1
            BY <1>7, <3>1 DEF IInv, Accepted
        <3>3. m \in Nat /\ n \in Nat
            BY <1>7, <3>1
        <3>4. QED
            BY <3>2, <3>3
    <2>5. \A n \in DOMAIN backlog' : backlog'[n] # first
        <3>1. SUFFICES ASSUME NEW n \in DOMAIN backlog' PROVE backlog[n + 1] # backlog[1]
            BY <1>7
        <3>2. QED
            BY <1>7 DEF IInv, Accepted
    <2>6. (\A n \in DOMAIN backlog : /\ cstate[backlog[n]] # "idle"
                                     /\ \A fd \in DOMAIN owner : owner[fd] # backlog[n])'
        BY <1>1, <1>7, <1>10, <2>5 DEF IInv, Accepted
    <2>7. QED
        BY <2>2, <2>3, <2>4, <2>6 DEF Accepted
<1>16. rfdset \subseteq Open /\ new \notin rfdset
    BY <1>5 DEF IInv, TableMatchesKernel, Open
<1>17. Rounds'
    <2>1. spc' = "dgram" => nready' >= 1
        BY <1>1, <1>3 DEF IInv, TypeOK, ServerTypes, Rounds
    <2>2. ASSUME NEW fd \in rfdset, fd # lfd PROVE Ready(fd)'
        <3>1. Ready(fd)
            BY <1>1, <2>2 DEF IInv, ReadsNeverBlock
        <3>2. QED
            BY <1>1, <1>10, <2>2, <3>1 DEF Ready, Readable
    <2>3. left' = 0 /\ dgrams' <= dsent'
        BY <1>1, <1>11 DEF IInv, Rounds
    <2>4. QED
        BY <1>1, <1>3, <2>1, <2>2, <2>3 DEF Rounds
<1>18. TableMatchesKernel'
    <2>1. \A j \in Occupied : conn_fds'[j] = conn_fds[j] /\ conn_fds[j] \in DOMAIN owner
        BY <1>6, <1>9, Peers DEF Occupied
    <2>2. conn_fds'[place] = new
        BY <1>6, <1>9
    <2>3. (\A j, k \in Occupied : j # k => conn_fds[j] # conn_fds[k])'
        BY <1>9, <1>10, <2>1, <2>2 DEF IInv, TableMatchesKernel
    <2>4. {conn_fds'[j] : j \in Occupied'} = DOMAIN owner'
        BY <1>9, <1>10, <2>1, <2>2 DEF IInv, TableMatchesKernel
    <2>5. \A fd \in DOMAIN owner' : fd < nfds'
        <3>1. \A fd \in DOMAIN owner : fd < nfds /\ fd \in Nat
            BY DEF IInv, TypeOK, SocketTypes, TableMatchesKernel
        <3>2. QED
            BY <1>8, <1>10, <3>1 DEF IInv, TypeOK, ServerTypes
    <2>6. rfdset' \subseteq Open'
        BY <1>1, <1>10, <1>16 DEF Open
    <2>7. QED
        BY <2>3, <2>4, <2>5, <2>6 DEF TableMatchesKernel
<1>19. ReadsNeverBlock'
    <2>1. dfd \in rfdset => dgrams > 0
        BY <1>1 DEF IInv, TypeOK, SocketTypes, ReadsNeverBlock, Ready, lfd, dfd
    <2>2. QED
        BY <1>1, <1>3, <2>1 DEF ReadsNeverBlock
<1>20. NothingLost'
    BY <1>1, <1>11 DEF IInv, NothingLost
<1>21. QED
    BY <1>12, <1>13, <1>14, <1>15, <1>17, <1>18, <1>19, <1>20 DEF IInv, TypeOK

\* read(): what it took is in the buffer, and goes back to the same connection.
LEMMA ReadStep == IInv /\ Read => IInv'
<1> SUFFICES ASSUME IInv, Read PROVE IInv'
    OBVIOUS
<1> USE Numbering
<1>1. /\ spc = "scan" /\ Scanned(i) /\ spc' = "write" /\ cstate[Peer(i)] # "reset"
      /\ UNCHANGED <<conn_fds, nfds, rfdset, nready, i, owner, backlog, dgrams, dsent,
                     cstate, sent, received, outbox>>
    BY DEF Read, round, sockets, clients
<1> DEFINE me == Peer(i)
<1>2. PICK k \in 1..inbox[me] : left' = k /\ inbox' = [inbox EXCEPT ![me] = inbox[me] - k]
    BY DEF Read
<1>3. i \in Occupied /\ i \in Slots /\ me \in Client
    BY <1>1, Peers DEF Scanned, Occupied, IInv, TypeOK, ServerTypes
<1>4. /\ inbox' \in [Client -> Nat]
      /\ \A c \in Client : inbox'[c] = IF c = me THEN inbox[me] - left' ELSE inbox[c]
      /\ left' \in Nat \ {0} /\ left' <= inbox[me]
    <2>1. inbox \in [Client -> Nat]
        BY DEF IInv, TypeOK, ClientTypes
    <2>2. inbox[me] - k \in Nat /\ k \in Nat
        BY <1>2, <1>3, <2>1
    <2>3. QED
        BY <1>2, <1>3, <2>1, <2>2
<1>5. left = 0
    BY <1>1 DEF IInv, TypeOK, ServerTypes, Rounds
<1>6. \A c \in Client : (c # me => (Readable(c)' <=> Readable(c)))
    BY <1>1, <1>4 DEF Readable
<1>7. \A j \in Slots : Scanned(j) /\ j # i => Peer(j) \in Client /\ Peer(j) # me
    BY <1>3, Peers DEF Scanned, Occupied
<1>8. ServerTypes' /\ SocketTypes'
    BY <1>1, <1>4 DEF IInv, TypeOK, ServerTypes, SocketTypes
<1>9. ClientTypes'
    <2>1. \A c \in Client : inbox'[c] <= MaxSend[c]
        BY <1>3, <1>4, SelectAssumption DEF IInv, TypeOK, ClientTypes
    <2>2. QED
        BY <1>1, <1>4, <2>1 DEF IInv, TypeOK, ClientTypes
<1>10. Accepted' /\ TableMatchesKernel'
    BY <1>1 DEF IInv, Accepted, TableMatchesKernel, Occupied, Open
<1>11. Rounds'
    <2>1. ASSUME NEW j \in Slots, j > i, Scanned(j) PROVE Readable(Peer(j))'
        <3>1. Readable(Peer(j)) /\ Peer(j) \in Client /\ Peer(j) # me
            BY <1>1, <1>3, <1>7, <2>1 DEF IInv, ReadsNeverBlock
        <3>2. QED
            BY <1>1, <1>4, <3>1 DEF Readable, Peer
    <2>2. conn_fds'[i'] # -1 /\ dgrams' <= dsent'
        BY <1>1 DEF Scanned, IInv, Rounds
    <2>3. \A j \in Slots : (j > i /\ Scanned(j))' => j > i /\ Scanned(j)
        BY <1>1 DEF Scanned
    <2>4. QED
        BY <1>1, <2>1, <2>2, <2>3 DEF Rounds
<1>12. ReadsNeverBlock'
    BY <1>1 DEF ReadsNeverBlock
<1>13. NothingLost'
    <2>1. SUFFICES ASSUME NEW c \in Client
                   PROVE  (sent[c] = inbox[c] + outbox[c] + received[c]
                                       + (IF left > 0 /\ Peer(i) = c THEN left ELSE 0))'
        BY DEF NothingLost
    <2>2. Peer(i)' = me
        BY <1>1 DEF Peer
    <2>3. sent[c] = inbox[c] + outbox[c] + received[c]
        BY <1>5 DEF IInv, NothingLost, TypeOK, ClientTypes
    <2>4. sent[c] \in Nat /\ inbox[c] \in Nat /\ outbox[c] \in Nat /\ received[c] \in Nat
        BY DEF IInv, TypeOK, ClientTypes
    <2>5. CASE c = me
        BY <1>1, <1>4, <2>2, <2>3, <2>4, <2>5
    <2>6. CASE c # me
        BY <1>1, <1>4, <2>2, <2>3, <2>4, <2>6
    <2>7. QED
        BY <2>5, <2>6
<1>14. QED
    BY <1>8, <1>9, <1>10, <1>11, <1>12, <1>13 DEF IInv, TypeOK

\* write(): the next piece of the buffer goes to the connection it came from.
LEMMA WriteStep == IInv /\ Write => IInv'
<1> SUFFICES ASSUME IInv, Write PROVE IInv'
    OBVIOUS
<1> USE Numbering
<1> DEFINE me == Peer(i)
<1>1. /\ spc = "write" /\ outbox[me] < Room /\ left' = left - 1
      /\ outbox' = [outbox EXCEPT ![me] = outbox[me] + 1]
      /\ UNCHANGED <<conn_fds, nfds, rfdset, nready, owner, backlog, dgrams, dsent,
                     cstate, sent, received, inbox>>
    BY DEF Write, round, sockets, clients
<1>2. \/ left' = 0 /\ i' \in Slots /\ spc' \in {"scan", "select"} /\ (spc' = "scan" => i' = i + 1)
      \/ left' # 0 /\ i' = i /\ spc' = "write"
    BY DEF Write, Advance
<1>3. left \in Nat \ {0} /\ i \in Slots /\ conn_fds[i] # -1
    BY <1>1 DEF IInv, TypeOK, ServerTypes, Rounds
<1>4. me \in Client
    BY <1>3, Peers DEF Occupied
<1>5. /\ outbox' \in [Client -> Nat]
      /\ \A c \in Client : outbox'[c] = IF c = me THEN outbox[me] + 1 ELSE outbox[c]
    BY <1>1, <1>4 DEF IInv, TypeOK, ClientTypes
<1>6. ServerTypes' /\ SocketTypes'
    BY <1>1, <1>2, <1>3 DEF IInv, TypeOK, ServerTypes, SocketTypes
<1>7. ClientTypes'
    <2>1. \A c \in Client : outbox'[c] <= Room
        BY <1>1, <1>4, <1>5, SelectAssumption DEF IInv, TypeOK, ClientTypes
    <2>2. QED
        BY <1>1, <1>5, <2>1 DEF IInv, TypeOK, ClientTypes
<1>8. Accepted' /\ TableMatchesKernel'
    BY <1>1 DEF IInv, Accepted, TableMatchesKernel, Occupied, Open
<1>9. \A j \in Slots : j > i /\ Scanned(j)' => Readable(Peer(j))'
    BY <1>1 DEF IInv, Rounds, Scanned, Peer, Readable
<1>10. Rounds'
    BY <1>1, <1>2, <1>3, <1>9 DEF IInv, Rounds
<1>11. ReadsNeverBlock'
    <2>1. \A j \in Slots : j >= i + 1 => j > i
        BY <1>3
    <2>2. QED
        BY <1>2, <1>9, <2>1 DEF ReadsNeverBlock
<1>12. NothingLost'
    <2>1. SUFFICES ASSUME NEW c \in Client
                   PROVE  (sent[c] = inbox[c] + outbox[c] + received[c]
                                       + (IF left > 0 /\ Peer(i) = c THEN left ELSE 0))'
        BY DEF NothingLost
    <2>2. left' # 0 => Peer(i)' = me
        BY <1>1, <1>2 DEF Peer
    <2>3. sent[c] = inbox[c] + outbox[c] + received[c] + (IF me = c THEN left ELSE 0)
        BY <1>3 DEF IInv, NothingLost
    <2>4. sent[c] \in Nat /\ inbox[c] \in Nat /\ outbox[c] \in Nat /\ received[c] \in Nat
        BY DEF IInv, TypeOK, ClientTypes
    <2>5. CASE c = me
        BY <1>1, <1>3, <1>5, <2>2, <2>3, <2>4, <2>5
    <2>6. CASE c # me
        BY <1>1, <1>3, <1>5, <2>2, <2>3, <2>4, <2>6
    <2>7. QED
        BY <2>5, <2>6
<1>13. QED
    BY <1>6, <1>7, <1>8, <1>10, <1>11, <1>12 DEF IInv, TypeOK

\* End of file: the descriptor leaves the kernel, the table and the snapshot together.
LEMMA EndOfFileStep == IInv /\ EndOfFile => IInv'
<1> SUFFICES ASSUME IInv, EndOfFile PROVE IInv'
    OBVIOUS
<1> USE Numbering
<1> DEFINE gone == conn_fds[i]
<1>1. /\ spc = "scan" /\ Scanned(i) /\ rfdset' = rfdset \ {gone}
      /\ conn_fds' = [conn_fds EXCEPT ![i] = -1]
      /\ UNCHANGED <<nfds, nready, left, backlog, dgrams, dsent,
                     cstate, sent, received, inbox, outbox>>
    BY DEF EndOfFile, clients, data
<1>2. owner' = [fd \in DOMAIN owner \ {gone} |-> owner[fd]]
    BY DEF EndOfFile, Restrict
<1>3. i' \in Slots /\ spc' \in {"scan", "select"} /\ (spc' = "scan" => i' = i + 1)
    BY DEF EndOfFile, Advance, IInv, TypeOK, ServerTypes
<1>4. i \in Occupied /\ i \in Slots /\ gone \in DOMAIN owner
    BY <1>1, Peers DEF Scanned, Occupied, IInv, TypeOK, ServerTypes
<1>5. left = 0
    BY <1>1 DEF IInv, TypeOK, ServerTypes, Rounds
<1>6. /\ \A j \in Slots : conn_fds'[j] = IF j = i THEN -1 ELSE conn_fds[j]
      /\ Occupied' = Occupied \ {i}
    <2>1. \A j \in Slots : conn_fds'[j] = IF j = i THEN -1 ELSE conn_fds[j]
        BY <1>1, <1>4 DEF IInv, TypeOK, ServerTypes
    <2>2. QED
        BY <2>1 DEF Occupied
<1>7. \A j \in Occupied \ {i} : conn_fds[j] # gone /\ conn_fds[j] \in DOMAIN owner
    BY <1>4, Peers DEF IInv, TableMatchesKernel
<1>8. ServerTypes'
    <2>1. conn_fds' \in [Slots -> ConnFds \cup {-1}]
        BY <1>1, <1>4 DEF IInv, TypeOK, ServerTypes
    <2>2. QED
        BY <1>1, <1>3, <2>1 DEF IInv, TypeOK, ServerTypes
<1>9. SocketTypes' /\ ClientTypes'
    <2>1. owner' \in [DOMAIN owner' -> Client] /\ DOMAIN owner' \subseteq ConnFds
        BY <1>2 DEF IInv, TypeOK, SocketTypes
    <2>2. QED
        BY <1>1, <2>1 DEF IInv, TypeOK, SocketTypes, ClientTypes
<1>10. Accepted'
    BY <1>1, <1>2 DEF IInv, Accepted
<1>11. Rounds'
    BY <1>1, <1>3, <1>5 DEF IInv, Rounds
<1>12. TableMatchesKernel'
    <2>1. DOMAIN owner' = DOMAIN owner \ {gone}
        BY <1>2
    <2>2. (\A j, k \in Occupied : j # k => conn_fds[j] # conn_fds[k])'
        BY <1>6 DEF IInv, TableMatchesKernel, Occupied
    <2>3. {conn_fds'[j] : j \in Occupied'} = DOMAIN owner'
        <3>1. {conn_fds'[j] : j \in Occupied'} = {conn_fds[j] : j \in Occupied \ {i}}
            BY <1>6 DEF Occupied
        <3>2. {conn_fds[j] : j \in Occupied} = DOMAIN owner
            BY DEF IInv, TableMatchesKernel
        <3>3. QED
            BY <1>4, <1>7, <2>1, <3>1, <3>2
    <2>4. QED
        BY <1>1, <2>1, <2>2, <2>3 DEF IInv, TableMatchesKernel, Open
<1>13. ReadsNeverBlock'
    <2>1. SUFFICES ASSUME spc' = "scan", NEW j \in Slots, j >= i', Scanned(j)'
                   PROVE  Readable(Peer(j))'
        BY <1>3 DEF ReadsNeverBlock
    <2>2. j > i
        BY <1>3, <1>4, <2>1
    <2>3. conn_fds'[j] = conn_fds[j] /\ Scanned(j) /\ j \in Occupied \ {i}
        BY <1>1, <1>4, <1>6, <2>1, <2>2 DEF Scanned, Occupied
    <2>4. Readable(Peer(j))
        BY <1>1, <1>4, <2>2, <2>3 DEF IInv, ReadsNeverBlock
    <2>5. Peer(j)' = Peer(j)
        BY <1>2, <1>7, <2>3 DEF Peer
    <2>6. QED
        BY <1>1, <2>4, <2>5 DEF Readable
<1>14. NothingLost'
    BY <1>1, <1>5 DEF IInv, NothingLost
<1>15. QED
    BY <1>8, <1>9, <1>10, <1>11, <1>12, <1>13, <1>14 DEF IInv, TypeOK

\* What is ready stays ready, whatever the clients do: only the server takes.
LEMMA ClientStep ==
    ASSUME IInv,
           \/ SendDatagram
           \/ \E c \in Client : Connect(c) \/ Send(c) \/ Receive(c) \/ Close(c) \/ Reset(c)
    PROVE  IInv'
<1> USE Numbering
<1> DEFINE Balance == \A d \in Client : sent'[d] - inbox'[d] - outbox'[d] - received'[d]
                                          = sent[d] - inbox[d] - outbox[d] - received[d]
           Grows == \A d \in Client : inbox'[d] >= inbox[d]
<1>1. UNCHANGED <<spc, round, i, left, owner>>
    BY DEF SendDatagram, Connect, Send, Receive, Close, Reset, sockets
<1>2. ClientTypes
    BY DEF IInv, TypeOK
<1>3. ServerTypes'
    BY <1>1 DEF IInv, TypeOK, ServerTypes, round
<1> DEFINE ClientMoves ==
               /\ cstate' \in [Client -> {"idle", "connected", "closed", "reset"}]
               /\ sent' \in [Client -> Nat] /\ received' \in [Client -> Nat]
               /\ inbox' \in [Client -> Nat] /\ outbox' \in [Client -> Nat]
               /\ Balance /\ Grows
               /\ \A d \in Client :
                     /\ cstate[d] \in {"closed", "reset"} => cstate'[d] \in {"closed", "reset"}
                     /\ cstate[d] # "idle" => cstate'[d] # "idle"
                     /\ sent'[d] <= MaxSend[d] /\ outbox'[d] <= Room
<1>4. ClientMoves
    <2>1. CASE SendDatagram
        BY <1>2, <2>1, SelectAssumption DEF SendDatagram, clients, data, ClientTypes
    <2>2. ASSUME NEW c \in Client, Connect(c) \/ Close(c) \/ Reset(c) PROVE ClientMoves
        <3>1. cstate' \in [Client -> {"idle", "connected", "closed", "reset"}]
            BY <1>2, <2>2 DEF Connect, Close, Reset, ClientTypes
        <3>2. UNCHANGED <<sent, received, inbox, outbox>>
            BY <2>2 DEF Connect, Close, Reset, data
        <3>3. \A d \in Client : cstate'[d] = cstate[d] \/ (d = c /\ cstate'[d] # "idle"
                                  /\ (cstate[d] \in {"closed", "reset"} => cstate'[d] = "reset"))
            <4>1. CASE Connect(c)
                BY <1>2, <4>1 DEF Connect, ClientTypes
            <4>2. CASE Close(c)
                BY <1>2, <4>2 DEF Close, ClientTypes
            <4>3. CASE Reset(c)
                BY <1>2, <4>3 DEF Reset, ClientTypes
            <4>4. QED
                BY <2>2, <4>1, <4>2, <4>3
        <3>4. Balance /\ Grows
            BY <1>2, <3>2 DEF ClientTypes
        <3>5. \A d \in Client : sent'[d] <= MaxSend[d] /\ outbox'[d] <= Room
            BY <1>2, <3>2 DEF ClientTypes
        <3>6. sent' \in [Client -> Nat] /\ received' \in [Client -> Nat]
              /\ inbox' \in [Client -> Nat] /\ outbox' \in [Client -> Nat]
            BY <1>2, <3>2 DEF ClientTypes
        <3>7. QED
            BY <3>1, <3>3, <3>4, <3>5, <3>6
    <2>3. ASSUME NEW c \in Client, Send(c) PROVE ClientMoves
        <3>1. sent'[c] = sent[c] + 1 /\ sent[c] < MaxSend[c]
            BY <1>2, <2>3 DEF Send, ClientTypes
        <3>2. sent[c] \in Nat /\ MaxSend[c] \in Nat
            BY <1>2, SelectAssumption DEF ClientTypes
        <3>3. sent'[c] <= MaxSend[c]
            BY <3>1, <3>2
        <3>4. QED
            BY <1>2, <2>3, <3>3, SelectAssumption DEF Send, ClientTypes
    <2>4. ASSUME NEW c \in Client, Receive(c) PROVE ClientMoves
        BY <1>2, <2>4, SelectAssumption DEF Receive, ClientTypes
    <2>5. QED
        BY <2>1, <2>2, <2>3, <2>4
<1>5. NothingLost'
    <2>1. SUFFICES ASSUME NEW d \in Client
                   PROVE  (sent[d] = inbox[d] + outbox[d] + received[d]
                                       + (IF left > 0 /\ Peer(i) = d THEN left ELSE 0))'
        BY DEF NothingLost
    <2>2. PICK n \in Nat : n = IF left > 0 /\ Peer(i) = d THEN left ELSE 0
        BY DEF IInv, TypeOK, ServerTypes
    <2>3. n = (IF left > 0 /\ Peer(i) = d THEN left ELSE 0)'
        BY <1>1, <2>2 DEF Peer, round
    <2>4. sent[d] = inbox[d] + outbox[d] + received[d] + n
        BY <2>2 DEF IInv, NothingLost
    <2>5. QED
        BY <1>2, <1>4, <2>3, <2>4 DEF ClientTypes
<1>6. ClientTypes'
    <2>1. left' \in Nat
        BY <1>3 DEF ServerTypes
    <2>2. \A d \in Client : inbox'[d] <= sent'[d] /\ received'[d] <= sent'[d]
        <3>1. SUFFICES ASSUME NEW d \in Client
                       PROVE  inbox'[d] <= sent'[d] /\ received'[d] <= sent'[d]
            OBVIOUS
        <3>2. PICK n \in Nat : sent'[d] = inbox'[d] + outbox'[d] + received'[d] + n
            BY <1>5, <2>1 DEF NothingLost
        <3>3. QED
            BY <1>4, <3>2
    <2>3. QED
        BY <1>4, <2>2, SelectAssumption DEF ClientTypes
<1>7. /\ SocketTypes' /\ dgrams' <= dsent' /\ dgrams' >= dgrams
      /\ backlog # <<>> => backlog' # <<>>
    <2>1. CASE SendDatagram
        BY <2>1, SelectAssumption DEF SendDatagram, IInv, TypeOK, SocketTypes, Rounds
    <2>2. CASE \E c \in Client : Connect(c)
        BY <2>2 DEF Connect, IInv, TypeOK, SocketTypes, Rounds
    <2>3. CASE \E c \in Client : Send(c) \/ Receive(c) \/ Close(c) \/ Reset(c)
        BY <2>3 DEF Send, Receive, Close, Reset, sockets, IInv, TypeOK, SocketTypes, Rounds
    <2>4. QED
        BY <2>1, <2>2, <2>3
<1>8. Accepted'
    <2>1. \A fd \in DOMAIN owner : owner[fd] \in Client
        BY DEF IInv, TypeOK, SocketTypes
    <2>2. \A n \in DOMAIN backlog : backlog[n] \in Client
        BY DEF IInv, TypeOK, SocketTypes
    <2>3. \A n \in DOMAIN backlog' : \/ n \in DOMAIN backlog /\ backlog'[n] = backlog[n]
                                     \/ n \notin DOMAIN backlog /\ n = Len(backlog) + 1
                                        /\ cstate[backlog'[n]] = "idle" /\ cstate'[backlog'[n]] # "idle"
        <3>1. ASSUME NEW c \in Client, Connect(c)
              PROVE  \A n \in DOMAIN backlog' :
                        \/ n \in DOMAIN backlog /\ backlog'[n] = backlog[n]
                        \/ n \notin DOMAIN backlog /\ n = Len(backlog) + 1
                           /\ cstate[backlog'[n]] = "idle" /\ cstate'[backlog'[n]] # "idle"
            <4>1. backlog \in Seq(Client)
                BY DEF IInv, TypeOK, SocketTypes
            <4>2. cstate'[c] = "connected" /\ cstate[c] = "idle" /\ backlog' = Append(backlog, c)
                BY <1>2, <3>1 DEF Connect, ClientTypes
            <4>3. QED
                BY <4>1, <4>2
        <3>2. CASE ~(\E c \in Client : Connect(c))
            BY <3>2 DEF SendDatagram, Send, Receive, Close, Reset, sockets
        <3>3. QED
            BY <3>1, <3>2
    <2>4. (\A fd, gd \in DOMAIN owner : owner[fd] = owner[gd] => fd = gd)'
        BY <1>1 DEF IInv, Accepted
    <2>5. (\A fd \in DOMAIN owner : cstate[owner[fd]] # "idle")'
        BY <1>1, <1>4, <2>1 DEF IInv, Accepted
    <2>6. \A m, n \in DOMAIN backlog' : backlog'[m] = backlog'[n] => m = n
        BY <2>3 DEF IInv, Accepted
    <2>7. (\A n \in DOMAIN backlog : /\ cstate[backlog[n]] # "idle"
                                     /\ \A fd \in DOMAIN owner : owner[fd] # backlog[n])'
        BY <1>1, <1>4, <2>2, <2>3 DEF IInv, Accepted
    <2>8. QED
        BY <2>4, <2>5, <2>6, <2>7 DEF Accepted
<1>9. TableMatchesKernel'
    BY <1>1 DEF IInv, TableMatchesKernel, Occupied, Open, round
<1>10. \A d \in Client : Readable(d) => Readable(d)'
    BY <1>2, <1>4 DEF Readable, ClientTypes
<1>11. \A fd : Ready(fd) => Ready(fd)'
    <2>1. \A fd \in DOMAIN owner : owner[fd] \in Client
        BY DEF IInv, TypeOK, SocketTypes
    <2>2. dgrams > 0 => dgrams' > 0
        BY <1>7 DEF IInv, TypeOK, SocketTypes
    <2>3. QED
        BY <1>1, <1>7, <1>10, <2>1, <2>2 DEF Ready
<1>12. \A j \in Slots : Scanned(j)' => /\ Scanned(j)
                                       /\ Readable(Peer(j)) => Readable(Peer(j))'
    <2>1. SUFFICES ASSUME NEW j \in Slots, Scanned(j)'
                   PROVE  Scanned(j) /\ (Readable(Peer(j)) => Readable(Peer(j))')
        OBVIOUS
    <2>2. Scanned(j) /\ j \in Occupied /\ Peer(j)' = Peer(j)
        BY <1>1, <2>1 DEF Scanned, Occupied, Peer, round
    <2>3. Peer(j) \in Client
        BY <2>2, Peers
    <2>4. Readable(Peer(j))' <=> (inbox'[Peer(j)] > 0 \/ cstate'[Peer(j)] \in {"closed", "reset"})
        BY <2>2 DEF Readable
    <2>5. QED
        BY <1>2, <1>4, <2>2, <2>3, <2>4 DEF Readable, ClientTypes
<1>13. Rounds'
    <2>1. (left > 0 => spc \in {"write", "exited"} /\ conn_fds[i] # -1)'
        BY <1>1 DEF IInv, Rounds, round
    <2>2. (spc \in {"listen", "dgram"} => nready >= 1)'
        BY <1>1 DEF IInv, Rounds, round
    <2>3. (spc = "dgram" => \A fd \in rfdset : fd # lfd => Ready(fd))'
        BY <1>1, <1>11 DEF IInv, Rounds, round
    <2>4. (spc = "write" => \A j \in Slots : (j > i /\ Scanned(j)) => Readable(Peer(j)))'
        BY <1>1, <1>12 DEF IInv, Rounds
    <2>5. QED
        BY <1>7, <2>1, <2>2, <2>3, <2>4 DEF Rounds
<1>14. ReadsNeverBlock'
    <2>1. (spc = "listen" => \A fd \in rfdset : Ready(fd))'
        BY <1>1, <1>11 DEF IInv, ReadsNeverBlock, round
    <2>2. (spc = "dgram" /\ dfd \in rfdset => dgrams > 0)'
        BY <1>1, <1>7 DEF IInv, TypeOK, SocketTypes, ReadsNeverBlock, round
    <2>3. (spc = "scan" => \A j \in Slots : (j >= i /\ Scanned(j)) => Readable(Peer(j)))'
        BY <1>1, <1>12 DEF IInv, ReadsNeverBlock
    <2>4. QED
        BY <2>1, <2>2, <2>3 DEF ReadsNeverBlock
<1>15. QED
    BY <1>3, <1>5, <1>6, <1>7, <1>8, <1>9, <1>13, <1>14 DEF IInv, TypeOK

\* The inductive invariant, from which the four theorems below follow.
LEMMA Inductive == Spec => []IInv
<1>1. IInv /\ [Next]_vars => IInv'
    <2> SUFFICES ASSUME IInv, [Next]_vars PROVE IInv'
        OBVIOUS
    <2>1. CASE Server
        BY <2>1, StillSteps, SelectStep, AcceptStep, ReadStep, WriteStep, EndOfFileStep DEF Server
    <2>2. CASE \/ SendDatagram
               \/ \E c \in Client : Connect(c) \/ Send(c) \/ Receive(c) \/ Close(c) \/ Reset(c)
        BY <2>2, ClientStep
    <2>3. CASE UNCHANGED vars
        BY <2>3 DEF vars, round, sockets, clients, data, IInv, TypeOK, ServerTypes, SocketTypes,
           ClientTypes, Accepted, Rounds, TableMatchesKernel, ReadsNeverBlock, NothingLost,
           Occupied, Open, Ready, Readable, Scanned, Peer
    <2>5. QED
        BY <2>1, <2>2, <2>3 DEF Next
<1>2. QED
    BY <1>1, InitInv, PTL DEF Spec

\* The server stays within its types and its limits, whatever the clients do: no
\* place or descriptor is ever out of range (echo_sv.c:72-80,104).
THEOREM TypeCorrect == Spec => []TypeOK
BY Inductive, PTL DEF IInv

\* The table, the kernel's open connections and what select() watches agree
\* (echo_sv.c:61-65,80,115).
THEOREM TableAgrees == Spec => []TableMatchesKernel
BY Inductive, PTL DEF IInv

\* Nothing the server goes on to take from can make it wait (echo_sv.c:70,89,106).
THEOREM NeverBlocks == Spec => []ReadsNeverBlock
BY Inductive, PTL DEF IInv

\* Every piece that a client sent is unread, in the buffer, or on its way back to
\* that client (echo_sv.c:108,121).
THEOREM NothingIsLost == Spec => []NothingLost
BY Inductive, PTL DEF IInv
=============================================================================
