-------------------------- MODULE FileServer_proofs --------------------------
(***************************************************************************)
(* Proofs about FileServer, for any pids, files, queue limits and starts.  *)
(***************************************************************************)
EXTENDS FileServer, FiniteSetTheorems, SequenceTheorems, TLAPS

\* What the steps below need of the table of children: an entry has three fields.
KidRecords ==
    /\ DOMAIN kid = Id
    /\ \A i \in Id : kid[i] = [st |-> kid[i].st, box |-> kid[i].box, pos |-> kid[i].pos]

SignalInv == KidRecords /\ NoForgottenChild

\* A step that leaves every child that is not dead not dead, and keeps the signal
\* and the handler as they are, forgets nobody.
LEMMA NobodyDies ==
    ASSUME NoForgottenChild, Zombies' \subseteq Zombies, UNCHANGED <<hand, chld>>
    PROVE  NoForgottenChild'
BY DEF NoForgottenChild

\* The steps of the server and of those that clean up after it.
LEMMA ServerForgetsNobody ==
    ASSUME SignalInv, SvCreate \/ SvStep \/ SvKilled \/ RemoveQueue \/ RemoveIdFile
    PROVE  SignalInv'
<1> USE DEF SignalInv, KidRecords
<1>1. CASE SvCreate \/ SvIdFile \/ SvIdWrite \/ SvReceive \/ SvRmid \/ RemoveQueue \/ RemoveIdFile
    <2>1. UNCHANGED <<kid, hand, chld>>
        BY <1>1 DEF SvCreate, SvIdFile, SvIdWrite, SvReceive, SvRmid, RemoveQueue, RemoveIdFile, server
    <2>2. QED
        BY <2>1 DEF NoForgottenChild, Zombies
<1>2. CASE SvFork
    <2>1. kid' = [kid EXCEPT ![cur] = NewKid(cur)] \/ UNCHANGED kid
        BY <1>2 DEF SvFork
    <2>2. KidRecords' /\ Zombies' \subseteq Zombies
        BY <2>1 DEF NewKid, Zombies
    <2>3. UNCHANGED <<hand, chld>>
        BY <1>2 DEF SvFork
    <2>4. QED
        BY <2>2, <2>3, NobodyDies
<1>3. ASSUME SvEnds PROVE SignalInv'
    BY <1>3 DEF SvEnds, Zombies, NoForgottenChild
<1>4. CASE SvUnlink \/ SvKilled
    BY <1>3, <1>4 DEF SvUnlink, SvKilled
<1>5. CASE SvSignal
    BY <1>5 DEF SvSignal, Zombies, NoForgottenChild
<1>6. CASE SvReap
    <2>1. CASE Zombies = {} /\ UNCHANGED kid
        BY <2>1 DEF Zombies, NoForgottenChild
    <2>2. CASE hand' = hand /\ \E i \in Zombies : kid' = [kid EXCEPT ![i].st = "gone"]
        BY <1>6, <2>2 DEF SvReap, Zombies, NoForgottenChild
    <2>3. QED
        BY <1>6, <2>1, <2>2 DEF SvReap
<1>7. QED
    BY <1>1, <1>2, <1>4, <1>5, <1>6 DEF SvStep

\* The steps of a child: when it dies its parent, if it has one, gets SIGCHLD.
LEMMA KidForgetsNobody ==
    ASSUME SignalInv, NEW i \in Id, KidStep(i)
    PROVE  SignalInv'
<1> USE DEF SignalInv, KidRecords
<1>1. UNCHANGED hand
    BY DEF KidStep, KidOpenQueue, KidFailure, KidRead, KidSend, KidEnd, kidUnchanged
<1>2. ASSUME KidEnds(i) PROVE SignalInv'
    <2>1. KidRecords'
        BY <1>2 DEF KidEnds
    <2>2. CASE i \in offspring
        <3>1. chld' = TRUE
            BY <1>2, <2>2 DEF KidEnds
        <3>2. QED
            BY <2>1, <3>1 DEF NoForgottenChild
    <2>3. CASE i \notin offspring
        <3>1. kid' = [kid EXCEPT ![i] = [st |-> "gone", box |-> i, pos |-> 0]]
            BY <1>2, <2>3 DEF KidEnds
        <3>2. chld => chld'
            BY <1>2 DEF KidEnds
        <3>3. Zombies' \subseteq Zombies
            BY <3>1 DEF Zombies
        <3>4. QED
            BY <1>1, <2>1, <3>2, <3>3 DEF NoForgottenChild
    <2>4. QED
        BY <2>2, <2>3
<1>3. ASSUME NEW b, kid' = [kid EXCEPT ![i].box = b, ![i].st = "open"], UNCHANGED chld
      PROVE  SignalInv'
    <2>1. DOMAIN kid' = Id /\ \A j \in Id : j # i => kid'[j] = kid[j]
        BY <1>3
    <2>2. kid'[i] = [[kid[i] EXCEPT !.box = b] EXCEPT !.st = "open"]
        BY <1>3
    <2>3. kid'[i] = [st |-> "open", box |-> b, pos |-> kid[i].pos]
        BY <2>2
    <2>4. KidRecords' /\ Zombies' \subseteq Zombies
        BY <2>1, <2>3 DEF Zombies
    <2>5. QED
        BY <1>1, <1>3, <2>4, NobodyDies
<1>4. ASSUME KidSent(i) PROVE SignalInv'
    <2>1. DOMAIN kid' = Id /\ \A j \in Id : j # i => kid'[j] = kid[j]
        BY <1>4 DEF KidSent
    <2>2. kid'[i] = [[kid[i] EXCEPT !.st = "open"] EXCEPT !.pos = kid[i].pos + 1]
        BY <1>4 DEF KidSent
    <2>3. kid'[i] = [st |-> "open", box |-> kid[i].box, pos |-> kid[i].pos + 1]
        BY <2>2
    <2>4. KidRecords' /\ Zombies' \subseteq Zombies
        BY <2>1, <2>3 DEF Zombies
    <2>5. QED
        BY <1>1, <1>4, <2>4, NobodyDies DEF KidSent
<1>5. ASSUME NEW l \in {"send", "end"}, KidGoto(i, l) PROVE SignalInv'
    <2>1. KidRecords' /\ Zombies' \subseteq Zombies
        BY <1>5 DEF Zombies, KidGoto
    <2>2. QED
        BY <1>1, <1>5, <2>1, NobodyDies DEF KidGoto
<1>6. CASE KidOpenQueue(i)
    BY <1>2, <1>3, <1>6 DEF KidOpenQueue
<1>7. CASE KidFailure(i)
    BY <1>2, <1>7 DEF KidFailure
<1>8. CASE KidRead(i) \/ KidSend(i)
    BY <1>4, <1>5, <1>8 DEF KidRead, KidSend
<1>9. CASE KidEnd(i)
    BY <1>2, <1>9 DEF KidEnd
<1>10. QED
    BY <1>6, <1>7, <1>8, <1>9 DEF KidStep

\* The steps of clients and of those who remove their queues leave the server alone.
LEMMA ClientsForgetNobody ==
    ASSUME SignalInv, NEW p \in Pid, ClStart(p) \/ ClStep(p) \/ ClKilled(p)
    PROVE  SignalInv'
<1>1. UNCHANGED <<kid, hand, chld>>
    BY DEF ClStart, ClStep, ClSend, ClReceive, ClExit, ClKilled, server
<1>2. QED
    BY <1>1 DEF SignalInv, KidRecords, NoForgottenChild, Zombies

\* No dead child is forgotten, however the signals of several are merged, in both
\* programs (grimReaper).
THEOREM ChildrenRemembered == Spec => []NoForgottenChild
<1>1. Init => SignalInv
    BY DEF Init, SignalInv, KidRecords, NoForgottenChild, Zombies
<1>2. SignalInv /\ [Next]_vars => SignalInv'
    <2> SUFFICES ASSUME SignalInv, [Next]_vars PROVE SignalInv'
        OBVIOUS
    <2>1. CASE SvCreate \/ SvStep \/ SvKilled \/ RemoveQueue \/ RemoveIdFile
        BY <2>1, ServerForgetsNobody
    <2>2. ASSUME NEW i \in Id, KidStep(i) PROVE SignalInv'
        BY <2>2, KidForgetsNobody
    <2>3. ASSUME NEW i \in Id, Cleanup(i) PROVE SignalInv'
        BY <2>3 DEF Cleanup, server, SignalInv, KidRecords, NoForgottenChild, Zombies
    <2>4. ASSUME NEW p \in Pid, ClStart(p) \/ ClStep(p) \/ ClKilled(p) PROVE SignalInv'
        BY <2>4, ClientsForgetNobody
    <2>5. CASE UNCHANGED vars
        BY <2>5 DEF vars, server, SignalInv, KidRecords, NoForgottenChild, Zombies
    <2>6. QED
        BY <2>1, <2>2, <2>3, <2>4, <2>5 DEF Next
<1>3. SignalInv => NoForgottenChild
    BY DEF SignalInv
<1>4. QED
    BY <1>1, <1>2, <1>3, PTL DEF Spec

-----------------------------------------------------------------------------
(* Who sends to whom, and what a client's queue holds.  The queue of a     *)
(* client is its own, except that with POSIX queues a child may find that  *)
(* of another process with the pid of a killed client.                     *)

\* A request that is in the server's queue or just received.
Pending == {i \in Id : (spc = "fork" /\ cur = i) \/ \E n \in DOMAIN sq : sq[n] = i}
\* Processes that have not yet sent a request.
Fresh == {i \in Id : i[2] > runs[i[1]] \/ (i = Me(i[1]) /\ cpc[i[1]] = "send")}
Ended(i) == kid[i].st \in {"zombie", "gone"}
Private(p) == Sysv \/ p \notin killed

\* A process has one request or one child, and none before it asks; a client that
\* was not killed waits as long as it has either.
Distinct ==
    /\ \A m, n \in DOMAIN sq : sq[m] = sq[n] => m = n
    /\ spc = "fork" => \A n \in DOMAIN sq : sq[n] # cur
Requests ==
    /\ Distinct
    /\ \A i \in Pending : kid[i].st = "none"
    /\ \A i \in Pending \cup Serving : i[1] \notin killed => Waiting(i[1]) /\ i = Me(i[1])
    /\ \A i \in Fresh : kid[i].st = "none" /\ kid[i].pos = 0 /\ i \notin Pending

\* A child sends to a queue with its client's pid, which is its client's own.
Boxes ==
    /\ \A i \in Serving : /\ kid[i].st = "queue" => ~Sysv
                          /\ kid[i].box[1] = i[1] /\ (Private(i[1]) => kid[i].box = i)
    /\ \A b \in linked : b[1] \notin killed => b = Me(b[1]) /\ cpc[b[1]] # "idle"
    /\ \A p \in Pid : cpc[p] # "idle" => Me(p) \in linked

\* Only a child that has ended has sent a message that is not a block, and nobody
\* has sent to a process that has not asked.
Finals ==
    /\ \A p \in Pid : Private(p) /\ cpc[p] # "idle" =>
          \A n \in DOMAIN box[Me(p)] : box[Me(p)][n].type # "DATA" => Ended(Me(p))
    /\ \A i \in Fresh : Private(i[1]) => box[i] = <<>>

Control == TypeOK /\ Requests /\ Boxes /\ Finals

\* What client p has and what its queue holds are the blocks of its file, in order,
\* and after the last of them the message its child ends with.
Block(p, m, n) == m = Data(asked[Me(p)], n) /\ n <= Blocks[asked[Me(p)]]
Last(p, m, n) ==
    /\ m.type # "DATA" /\ Ended(Me(p))
    /\ IF m = Failure THEN Blocks[asked[Me(p)]] = -1
       ELSE n = Blocks[asked[Me(p)]] \/ Me(p) \in unread
InOrder(p) ==
    /\ \A n \in DOMAIN got[p] : Block(p, got[p][n], n)
    /\ \A n \in DOMAIN box[Me(p)] :
          \/ Block(p, box[Me(p)][n], Len(got[p]) + n)
          \/ n = Len(box[Me(p)]) /\ Last(p, box[Me(p)][n], Len(got[p]) + n - 1)

Progress(p) ==
    /\ cpc[p] = "more" => got[p] # <<>>
    /\ kid[Me(p)].st = "none" => got[p] = <<>> /\ box[Me(p)] = <<>>
    /\ Me(p) \in Serving =>
          /\ kid[Me(p)].pos = Len(got[p]) + Len(box[Me(p)])
          /\ kid[Me(p)].st = "end" => kid[Me(p)].pos = Blocks[asked[Me(p)]] \/ Me(p) \in unread

Answers ==
    /\ \A p \in Pid : Private(p) /\ cpc[p] # "idle" => InOrder(p) /\ Progress(p)
    /\ \A p \in Pid : cpc[p] \in {"idle", "send"} => got[p] = <<>>
    /\ \A d \in done : d.id \in Id /\ d.id \notin Fresh

\* A process identifier and the number of the process.
LEMMA Ids ==
    /\ \A i \in Id : /\ i[1] \in Pid /\ i[2] \in 1..MaxRuns[i[1]] /\ i = <<i[1], i[2]>>
                     /\ MaxRuns[i[1]] \in Nat
    /\ \A p \in Pid : /\ MaxRuns[p] \in Nat
                      /\ \A r : <<p, r>> \in Id <=> r \in 1..MaxRuns[p]
BY FileServerAssumption DEF Id

\* How much of a queue's limit its messages take: one more for each message that
\* is sent, at the most, and no more for one that is taken.
LEMMA UsedFacts ==
    ASSUME NEW q \in Seq(Messages)
    PROVE  /\ Used(q) \in Nat /\ Used(<<>>) = 0
           /\ \A m \in Messages : /\ Used(Append(q, m)) <= Used(q) + 1
                                  /\ Sysv /\ m.type # "DATA" => Used(Append(q, m)) = Used(q)
           /\ q # <<>> => Used(Tail(q)) <= Used(q)
<1> DEFINE Full(s) == {k \in DOMAIN s : s[k].type = "DATA"}
<1>1. \A s \in Seq(Messages) : IsFiniteSet(Full(s)) /\ Cardinality(Full(s)) \in Nat
    <2>1. SUFFICES ASSUME NEW s \in Seq(Messages)
                   PROVE  IsFiniteSet(Full(s)) /\ Cardinality(Full(s)) \in Nat
        OBVIOUS
    <2>2. IsFiniteSet(1..Len(s)) /\ Full(s) \in SUBSET (1..Len(s))
        BY FS_Interval, 1 \in Int, Len(s) \in Int
    <2>3. IsFiniteSet(Full(s))
        BY <2>2, FS_Subset
    <2>4. QED
        BY <2>3, FS_CardinalityType
<1>2. Full(<<>>) = {} /\ Cardinality({}) = 0
    BY FS_EmptySet
<1>3. ASSUME NEW m \in Messages
      PROVE  Cardinality(Full(Append(q, m))) =
                IF m.type = "DATA" THEN Cardinality(Full(q)) + 1 ELSE Cardinality(Full(q))
    <2>1. /\ DOMAIN Append(q, m) = DOMAIN q \cup {Len(q) + 1} /\ Len(q) + 1 \notin DOMAIN q
          /\ Append(q, m)[Len(q) + 1] = m /\ \A k \in DOMAIN q : Append(q, m)[k] = q[k]
        OBVIOUS
    <2>2. CASE m.type = "DATA"
        <3>1. Full(Append(q, m)) = Full(q) \cup {Len(q) + 1} /\ Len(q) + 1 \notin Full(q)
            BY <2>1, <2>2
        <3>2. QED
            BY <1>1, <2>2, <3>1, FS_AddElement
    <2>3. CASE m.type # "DATA"
        <3>1. Full(Append(q, m)) = Full(q)
            BY <2>1, <2>3
        <3>2. QED
            BY <2>3, <3>1
    <2>4. QED
        BY <2>2, <2>3
<1>4. ASSUME q # <<>> PROVE Cardinality(Full(Tail(q))) <= Cardinality(Full(q))
    <2> DEFINE next == [k \in Full(Tail(q)) |-> k + 1]
    <2>1. \A k \in Full(Tail(q)) : k \in Nat /\ k + 1 \in Full(q)
        BY <1>4
    <2>2. next \in [Full(Tail(q)) -> Full(q)] /\ IsInjective(next)
        BY <2>1 DEF IsInjective
    <2>3. next \in Injection(Full(Tail(q)), Full(q))
        BY <2>2 DEF Injection
    <2>4. QED
        BY <1>1, <2>3, FS_Injection
<1>5. CASE Sysv
    <2>1. ASSUME NEW s PROVE Used(s) = Cardinality(Full(s))
        BY <1>5 DEF Used
    <2> HIDE DEF Full
    <2>2. /\ Used(q) = Cardinality(Full(q)) /\ Used(<<>>) = Cardinality(Full(<<>>))
          /\ Used(Tail(q)) = Cardinality(Full(Tail(q)))
          /\ \A m \in Messages : Used(Append(q, m)) = Cardinality(Full(Append(q, m)))
        BY <2>1
    <2>3. \A m \in Messages : /\ Used(Append(q, m)) <= Used(q) + 1
                              /\ m.type # "DATA" => Used(Append(q, m)) = Used(q)
        BY <1>1, <1>3, <2>2
    <2>4. q # <<>> => Used(Tail(q)) <= Used(q)
        BY <1>4, <2>2
    <2>5. Used(q) \in Nat /\ Used(<<>>) = 0
        BY <1>1, <1>2, <2>2
    <2>6. QED
        BY <2>3, <2>4, <2>5
<1>6. CASE ~Sysv
    <2>1. \A s : Used(s) = Len(s)
        BY <1>6 DEF Used
    <2>2. Len(q) \in Nat /\ Len(<<>>) = 0 /\ (q # <<>> => Len(Tail(q)) <= Len(q))
        OBVIOUS
    <2>3. \A m \in Messages : Len(Append(q, m)) = Len(q) + 1
        OBVIOUS
    <2>4. Used(q) \in Nat /\ Used(<<>>) = 0 /\ (q # <<>> => Used(Tail(q)) <= Used(q))
        BY <2>1, <2>2
    <2>5. ASSUME NEW m \in Messages PROVE Used(Append(q, m)) <= Used(q) + 1
        <3>1. Used(q) = Len(q) /\ Used(Append(q, m)) = Len(Append(q, m))
            BY <2>1
        <3>2. QED
            BY <2>2, <2>3, <3>1
    <2>6. \A m \in Messages : Sysv /\ m.type # "DATA" => Used(Append(q, m)) = Used(q)
        BY <1>6
    <2>7. QED
        BY <2>4, <2>5, <2>6
<1>7. QED
    BY <1>5, <1>6

\* A step of the server that makes no child: it loses requests or none, and of the
\* children only dead ones change.
Quiet ==
    /\ UNCHANGED <<variant, clients, linked, box, history>>
    /\ ServerTypes' /\ KidTypes' /\ Distinct' /\ Pending' \subseteq Pending
    /\ \A j \in Id : \/ kid'[j] = kid[j]
                     \/ /\ kid[j].st = "zombie" /\ kid'[j].st = "gone"
                        /\ kid'[j].box = kid[j].box /\ kid'[j].pos = kid[j].pos

\* One that keeps or empties the server's queue.
LEMMA QuietQueue ==
    ASSUME Control, sq' = sq \/ sq' = <<>>, spc' = "fork" => spc = "fork" /\ cur' = cur
    PROVE  /\ Distinct' /\ Pending' \subseteq Pending
           /\ sq' \in Seq(Id) /\ Len(sq') <= ServerCap /\ (spc' = "fork" => cur' \in Id)
<1>1. sq \in Seq(Id) /\ Len(sq) <= ServerCap /\ ServerCap \in Nat /\ (spc = "fork" => cur \in Id)
    BY FileServerAssumption DEF Control, TypeOK, ServerTypes
<1>2. Distinct
    BY DEF Control, Requests
<1>3. CASE sq' = sq
    BY <1>1, <1>2, <1>3 DEF Distinct, Pending
<1>4. CASE sq' = <<>>
    <2>1. DOMAIN sq' = {} /\ sq' \in Seq(Id) /\ Len(sq') = 0
        BY <1>4
    <2>2. QED
        BY <1>1, <2>1 DEF Distinct, Pending
<1>5. QED
    BY <1>3, <1>4

LEMMA ServerQuiet ==
    ASSUME Control,
           SvCreate \/ SvIdFile \/ SvIdWrite \/ SvReceive \/ SvRmid \/ SvUnlink \/ SvKilled
              \/ SvSignal \/ SvReap \/ RemoveQueue \/ RemoveIdFile
    PROVE  Quiet
<1> USE DEF Control, TypeOK
<1>1. ServerTypes /\ KidTypes
    OBVIOUS
<1>2. CASE SvCreate \/ SvIdFile \/ SvIdWrite \/ SvRmid \/ SvSignal \/ RemoveQueue \/ RemoveIdFile
    <2>1. /\ UNCHANGED <<variant, clients, linked, box, history, kid>>
          /\ sq' = sq \/ sq' = <<>>
          /\ spc' = "fork" => spc = "fork" /\ cur' = cur
        BY <1>2 DEF SvCreate, SvIdFile, SvIdWrite, SvRmid, SvSignal, RemoveQueue, RemoveIdFile, server
    <2>2. /\ spc' \in {"down", "idfile", "idwrite", "receive", "fork", "rmid", "unlink"}
          /\ hand' \in BOOLEAN /\ chld' \in BOOLEAN /\ offspring' = offspring
          /\ starts' \in Nat /\ skey' \in 0..starts' /\ file' \in (0..starts') \cup {Empty}
        <3> USE <1>1 DEF ServerTypes
        <3>1. CASE SvCreate
            BY <3>1 DEF SvCreate
        <3>2. CASE SvIdFile \/ SvIdWrite
            BY <3>2 DEF SvIdFile, SvIdWrite
        <3>3. CASE SvRmid
            BY <3>3 DEF SvRmid
        <3>4. CASE SvSignal
            BY <3>4 DEF SvSignal
        <3>5. CASE RemoveQueue \/ RemoveIdFile
            BY <3>5 DEF RemoveQueue, RemoveIdFile, server
        <3>6. QED
            BY <1>2, <3>1, <3>2, <3>3, <3>4, <3>5
    <2>3. QED
        BY <1>1, <2>1, <2>2, QuietQueue DEF Quiet, KidTypes, ServerTypes, Serving, Zombies, clients
<1>3. CASE SvReceive
    <2>1. sq \in Seq(Id) /\ Len(sq) <= ServerCap /\ sq # <<>> /\ cur' = Head(sq) /\ sq' = Tail(sq)
        BY <1>1, <1>3 DEF SvReceive, ServerTypes
    <2>2. UNCHANGED <<variant, clients, linked, box, history, kid>> /\ spc' = "fork" /\ spc = "receive"
        BY <1>3 DEF SvReceive
    <2>3. /\ cur' \in Id /\ cur' = sq[1] /\ 1 \in DOMAIN sq /\ sq' \in Seq(Id) /\ Len(sq') <= ServerCap
          /\ \A n \in DOMAIN sq' : n + 1 \in DOMAIN sq /\ n + 1 # 1 /\ sq'[n] = sq[n + 1]
          /\ \A m, n \in DOMAIN sq' : m + 1 = n + 1 => m = n
        BY <2>1, FileServerAssumption
    <2>4. Distinct' /\ Pending' \subseteq Pending
        BY <2>2, <2>3 DEF Requests, Distinct, Pending
    <2>5. ServerTypes'
        BY <1>1, <1>3, <2>2, <2>3 DEF SvReceive, ServerTypes, Serving, Zombies
    <2>6. QED
        BY <1>1, <2>2, <2>4, <2>5 DEF Quiet, KidTypes, clients
<1>4. ASSUME SvEnds, UNCHANGED <<skey, sq>> \/ (skey' = 0 /\ sq' = <<>>), UNCHANGED file \/ file' = 0
      PROVE  Quiet
    <2>1. /\ UNCHANGED <<variant, clients, linked, box, history>>
          /\ spc' = "down" /\ offspring' = {} /\ hand' = FALSE /\ chld' = FALSE /\ starts' = starts
        BY <1>4 DEF SvEnds
    <2>2. kid' = [i \in Id |-> IF i \in Zombies THEN [kid[i] EXCEPT !.st = "gone"] ELSE kid[i]]
        BY <1>4 DEF SvEnds
    <2>3. /\ KidTypes'
          /\ \A j \in Id : \/ kid'[j] = kid[j]
                           \/ /\ kid[j].st = "zombie" /\ kid'[j].st = "gone"
                              /\ kid'[j].box = kid[j].box /\ kid'[j].pos = kid[j].pos
        BY <1>1, <2>1, <2>2 DEF KidTypes, Zombies, clients
    <2>4. Distinct' /\ Pending' \subseteq Pending /\ sq' \in Seq(Id) /\ Len(sq') <= ServerCap
        BY <1>4, <2>1, QuietQueue
    <2>5. starts' \in Nat /\ skey' \in 0..starts' /\ file' \in (0..starts') \cup {Empty}
        BY <1>1, <1>4, <2>1 DEF ServerTypes
    <2>6. ServerTypes'
        BY <2>1, <2>4, <2>5 DEF ServerTypes
    <2>7. QED
        BY <2>1, <2>3, <2>4, <2>6 DEF Quiet
<1>5. CASE SvUnlink
    BY <1>4, <1>5 DEF SvUnlink
<1>6. CASE SvKilled
    BY <1>4, <1>6 DEF SvKilled
<1>7. CASE SvReap
    <2>1. /\ UNCHANGED <<variant, clients, linked, box, history>>
          /\ UNCHANGED <<spc, starts, cur, chld, skey, sq, file>> /\ hand' \in BOOLEAN
        BY <1>1, <1>7 DEF SvReap, ServerTypes
    <2>2. Distinct' /\ Pending' \subseteq Pending
        BY <2>1, QuietQueue
    <2>3. CASE UNCHANGED <<kid, offspring>>
        BY <1>1, <2>1, <2>2, <2>3 DEF Quiet, KidTypes, ServerTypes, Serving, Zombies, clients
    <2>4. ASSUME NEW i \in Zombies, kid' = [kid EXCEPT ![i].st = "gone"], offspring' = offspring \ {i}
          PROVE  Quiet
        <3>1. /\ KidTypes'
              /\ \A j \in Id : IF j = i THEN /\ kid[j].st = "zombie" /\ kid'[j].st = "gone"
                                             /\ kid'[j].box = kid[j].box /\ kid'[j].pos = kid[j].pos
                               ELSE kid'[j] = kid[j]
            BY <1>1, <2>1, <2>4 DEF KidTypes, Zombies, clients
        <3>2. offspring' \subseteq Serving' \cup Zombies'
            BY <1>1, <2>4, <3>1 DEF ServerTypes, Serving, Zombies
        <3>3. ServerTypes'
            BY <1>1, <2>1, <3>2 DEF ServerTypes
        <3>4. QED
            BY <2>1, <2>2, <3>1, <3>3 DEF Quiet
    <2>5. QED
        BY <1>7, <2>3, <2>4 DEF SvReap
<1>8. QED
    BY <1>2, <1>3, <1>5, <1>6, <1>7

\* What such a step leaves of the other processes.
LEMMA QuietFrame ==
    ASSUME Quiet, KidTypes
    PROVE  /\ \A j \in Id : /\ (kid'[j].st = "none") = (kid[j].st = "none")
                            /\ kid'[j].box = kid[j].box /\ kid'[j].pos = kid[j].pos
                            /\ Ended(j) => Ended(j)'
                            /\ j \in Serving => kid'[j] = kid[j]
           /\ Serving' = Serving /\ Fresh' = Fresh
           /\ \A p : Me(p)' = Me(p) /\ Waiting(p)' = Waiting(p) /\ Private(p)' = Private(p)
BY DEF Quiet, Ended, Serving, Fresh, Me, Waiting, Private, Sysv, clients, history

LEMMA QuietControl ==
    ASSUME Control, Quiet
    PROVE  Control'
<1> USE DEF Control
<1>1. UNCHANGED <<variant, clients, linked, box, history>> /\ ServerTypes' /\ KidTypes'
    BY DEF Quiet
<1>2. KidTypes
    BY DEF TypeOK
<1>3. TypeOK'
    BY <1>1 DEF TypeOK, BoxTypes, ClientTypes, clients, Used, Sysv, Me
<1>4. Requests'
    BY <1>1, <1>2, QuietFrame DEF Quiet, Requests, history, Pending, Fresh
<1>5. Boxes'
    BY <1>1, <1>2, QuietFrame DEF Boxes, history, clients, Sysv, Serving
<1>6. Finals'
    <2>1. \A p \in Pid : cpc[p] # "idle" => Me(p) \in Id
        BY DEF TypeOK, ClientTypes
    <2>2. QED
        BY <1>1, <1>2, <2>1, QuietFrame DEF Finals, clients
<1>7. QED
    BY <1>3, <1>4, <1>5, <1>6

\* The child of a request: its client has not had another.
LEMMA ForkFrame ==
    ASSUME Control, SvFork
    PROVE  /\ UNCHANGED <<variant, clients, linked, box, history>>
           /\ cur \in Id /\ kid[cur].st = "none" /\ cur \in Pending /\ sq' = sq /\ spc' # "fork"
           /\ UNCHANGED kid \/ kid' = [kid EXCEPT ![cur] = NewKid(cur)]
           /\ Pending' \subseteq Pending /\ cur \notin Pending' /\ Fresh' = Fresh
           /\ \A p : Me(p)' = Me(p) /\ Waiting(p)' = Waiting(p) /\ Private(p)' = Private(p)
<1> USE DEF Control
<1>1. spc = "fork" /\ cur \in Id /\ sq' = sq /\ spc' # "fork"
    BY DEF SvFork, TypeOK, ServerTypes
<1>2. UNCHANGED <<variant, clients, linked, box, history>>
    BY DEF SvFork
<1>3. cur \in Pending /\ kid[cur].st = "none" /\ Pending' \subseteq Pending /\ cur \notin Pending'
    BY <1>1 DEF Pending, Requests, Distinct
<1>4. UNCHANGED kid \/ kid' = [kid EXCEPT ![cur] = NewKid(cur)]
    BY DEF SvFork
<1>5. Fresh' = Fresh /\ \A p : Me(p)' = Me(p) /\ Waiting(p)' = Waiting(p) /\ Private(p)' = Private(p)
    BY <1>2 DEF Fresh, Me, Waiting, Private, Sysv, clients, history
<1>6. QED
    BY <1>1, <1>2, <1>3, <1>4, <1>5

LEMMA ForkControl ==
    ASSUME Control, SvFork
    PROVE  Control'
<1> USE DEF Control
<1>1. PICK k \in Id : k = cur
    BY ForkFrame
<1>2. /\ UNCHANGED <<variant, clients, linked, box, history>>
      /\ k \in Id /\ kid[k].st = "none" /\ k \in Pending /\ sq' = sq /\ spc' # "fork"
      /\ UNCHANGED kid \/ kid' = [kid EXCEPT ![k] = NewKid(k)]
      /\ Pending' \subseteq Pending /\ k \notin Pending' /\ Fresh' = Fresh
      /\ \A p : Me(p)' = Me(p) /\ Waiting(p)' = Waiting(p) /\ Private(p)' = Private(p)
    BY <1>1, ForkFrame
<1>3. ServerTypes /\ KidTypes
    BY DEF TypeOK
<1>4. /\ NewKid(k).st = IF Sysv THEN "open" ELSE "queue"
      /\ NewKid(k).box = k /\ NewKid(k).pos = 0
      /\ NewKid(k) \in [st : {"queue", "open"}, box : Id, pos : Nat]
    BY DEF NewKid
<1>5. /\ KidTypes'
      /\ \A j \in Id : j # k => kid'[j] = kid[j]
      /\ kid'[k] = kid[k] \/ kid'[k] = NewKid(k)
    BY <1>2, <1>3, <1>4 DEF KidTypes, clients
<1>6. /\ Serving \subseteq Serving' /\ Serving' \subseteq Serving \cup {k} /\ Zombies' = Zombies
      /\ \A j \in Id : Ended(j)' = Ended(j)
    BY <1>2, <1>4, <1>5 DEF Serving, Zombies, Ended
<1>7. ServerTypes'
    <2>1. offspring' \subseteq Serving' \cup Zombies'
        <3>1. CASE offspring' = offspring
            BY <1>3, <1>6, <3>1 DEF ServerTypes
        <3>2. CASE offspring' = offspring \cup {k} /\ kid' = [kid EXCEPT ![k] = NewKid(k)]
            <4>1. k \in Serving'
                BY <1>3, <1>4, <3>2 DEF Serving, KidTypes
            <4>2. QED
                BY <1>3, <1>6, <3>2, <4>1 DEF ServerTypes
        <3>3. QED
            BY <1>1, <3>1, <3>2 DEF SvFork
    <2>2. QED
        BY <1>2, <1>3, <2>1 DEF SvFork, ServerTypes
<1>8. TypeOK'
    BY <1>2, <1>5, <1>7 DEF TypeOK, BoxTypes, ClientTypes, clients, Used, Sysv, Me
<1>9. Requests'
    <2>1. \A i \in Id : i \in Pending' \cup Serving' => i \in Pending \cup Serving
        BY <1>2, <1>6
    <2>2. \A i \in Fresh : i # k
        BY <1>2 DEF Requests
    <2>3. Distinct'
        BY <1>2 DEF Requests, Distinct
    <2>4. \A i \in Fresh : kid'[i] = kid[i] /\ i \notin Pending'
        BY <1>2, <1>5, <2>2 DEF Fresh, Requests
    <2>5. \A i \in Pending' : i \in Pending /\ kid'[i] = kid[i]
        BY <1>2, <1>5 DEF Pending
    <2>6. \A i \in Pending' \cup Serving' : i[1] \notin killed => Waiting(i[1]) /\ i = Me(i[1])
        BY <2>1 DEF Requests, Pending, Serving
    <2>7. QED
        BY <1>2, <2>3, <2>4, <2>5, <2>6 DEF Requests, history
<1>10. Boxes'
    <2>1. \A i \in Serving' : /\ kid'[i].st = "queue" => ~Sysv
                              /\ kid'[i].box[1] = i[1] /\ (Private(i[1]) => kid'[i].box = i)
        <3> SUFFICES ASSUME NEW i \in Serving'
                     PROVE /\ kid'[i].st = "queue" => ~Sysv
                           /\ kid'[i].box[1] = i[1] /\ (Private(i[1]) => kid'[i].box = i)
            OBVIOUS
        <3>1. CASE kid'[i] = kid[i]
            BY <3>1 DEF Boxes, Serving
        <3>2. CASE i = k /\ kid'[i] = NewKid(k)
            BY <1>4, <3>2
        <3>3. QED
            BY <1>5, <3>1, <3>2 DEF Serving
    <2>2. QED
        BY <1>2, <2>1 DEF Boxes, history, clients, Sysv
<1>11. Finals'
    <2>1. \A p \in Pid : cpc[p] # "idle" => Me(p) \in Id
        BY DEF TypeOK, ClientTypes
    <2>2. QED
        BY <1>2, <1>6, <2>1 DEF Finals, clients
<1>12. QED
    BY <1>8, <1>9, <1>10, <1>11

\* A step of a child changes its own entry, and puts a message in the queue it has
\* open or none: any but a block as it ends.
KidOnly(i) ==
    /\ \A j \in Id : j # i => kid'[j] = kid[j]
    /\ KidTypes' /\ chld' \in BOOLEAN
    /\ i \in Serving' => /\ kid'[i].st # "queue" /\ kid'[i].box[1] = i[1]
                         /\ Private(i[1]) => kid'[i].box = i
    /\ i \in Serving' \/ Ended(i)'
    /\ i \in offspring => i \in Serving' \cup Zombies'
KidMessage(i) ==
    \/ UNCHANGED box
    \/ \E m \in Messages : Put(kid[i].box, m) /\ (m.type # "DATA" => Ended(i)')

LEMMA KidFrame ==
    ASSUME Control, NEW i \in Id, KidStep(i)
    PROVE  /\ UNCHANGED kidUnchanged /\ i \in Serving
           /\ KidOnly(i) /\ KidMessage(i)
<1> USE DEF Control
<1>1. UNCHANGED kidUnchanged
    BY DEF KidStep, KidOpenQueue, KidFailure, KidRead, KidSend, KidEnd
<1>2. i \in Serving
    BY DEF KidStep, KidOpenQueue, KidFailure, KidRead, KidSend, KidEnd, Serving
<1>3. /\ ServerTypes /\ KidTypes /\ kid[i].pos \in Nat
      /\ kid[i].box \in Id /\ kid[i].box[1] = i[1] /\ (Private(i[1]) => kid[i].box = i)
      /\ kid[i].pos \in 0..Blocks[asked[i]] \cup {0} /\ Blocks[asked[i]] \in Int
    BY <1>2, FileServerAssumption DEF TypeOK, KidTypes, ClientTypes, Boxes
<1>4. asked' = asked
    BY <1>1 DEF kidUnchanged, clients
<1>5. ASSUME KidEnds(i) PROVE KidOnly(i) /\ Ended(i)'
    <2>1. /\ kid' = [kid EXCEPT ![i] = [st |-> IF i \in offspring THEN "zombie" ELSE "gone",
                                        box |-> i, pos |-> 0]]
          /\ chld' \in BOOLEAN
        BY <1>3, <1>5 DEF KidEnds, ServerTypes
    <2>2. /\ \A j \in Id : j # i => kid'[j] = kid[j]
          /\ kid'[i] = [st |-> IF i \in offspring THEN "zombie" ELSE "gone", box |-> i, pos |-> 0]
        BY <1>3, <2>1 DEF KidTypes
    <2>3. KidTypes'
        BY <1>3, <1>4, <2>1, <2>2 DEF KidTypes
    <2>4. Ended(i)' /\ i \notin Serving' /\ (i \in offspring => i \in Zombies')
        BY <2>2 DEF Ended, Serving, Zombies
    <2>5. QED
        BY <2>1, <2>2, <2>3, <2>4 DEF KidOnly
<1>6. ASSUME NEW b \in Id, NEW l \in {"open", "send", "end"}, NEW n \in 0..Blocks[asked[i]] \cup {0},
             l = "send" => n < Blocks[asked[i]],
             kid' = [j \in Id |-> kid'[j]], \A j \in Id : j # i => kid'[j] = kid[j],
             kid'[i] = [st |-> l, box |-> b, pos |-> n],
             chld' = chld, b[1] = i[1], Private(i[1]) => b = i
      PROVE  KidOnly(i)
    <2>1. kid'[i] \in [st : {"none", "queue", "open", "send", "end", "zombie", "gone"}, box : Id, pos : Nat]
        BY <1>3, <1>6
    <2>2. KidTypes'
        <3>1. \A j \in Id : kid'[j] \in [st : {"none", "queue", "open", "send", "end", "zombie", "gone"}, box : Id, pos : Nat]
            BY <1>3, <1>6, <2>1 DEF KidTypes
        <3>2. kid' \in [Id -> [st : {"none", "queue", "open", "send", "end", "zombie", "gone"}, box : Id, pos : Nat]]
            BY <1>6, <3>1
        <3>3. ASSUME NEW j \in Id
              PROVE  /\ kid'[j].pos \in 0..Blocks[asked[j]] \cup {0}
                     /\ kid'[j].st = "send" => kid'[j].pos < Blocks[asked[j]]
            <4>1. CASE j = i
                BY <1>6, <4>1
            <4>2. CASE j # i
                BY <1>3, <1>6, <4>2 DEF KidTypes
            <4>3. QED
                BY <4>1, <4>2
        <3>4. QED
            BY <1>4, <3>2, <3>3 DEF KidTypes
    <2>3. i \in Serving' /\ kid'[i].st # "queue" /\ kid'[i].box = b
        BY <1>6 DEF Serving
    <2>4. QED
        BY <1>3, <1>6, <2>2, <2>3 DEF KidOnly, ServerTypes
<1>7. kid[i] = [st |-> kid[i].st, box |-> kid[i].box, pos |-> kid[i].pos]
    BY <1>3 DEF KidTypes
<1>8. ASSUME (KidGoto(i, "send") /\ kid[i].pos < Blocks[asked[i]]) \/ KidGoto(i, "end")
      PROVE  KidOnly(i)
    <2>1. /\ kid' = [j \in Id |-> kid'[j]] /\ \A j \in Id : j # i => kid'[j] = kid[j]
          /\ chld' = chld
        BY <1>3, <1>8 DEF KidTypes, KidGoto
    <2>2. \/ kid'[i] = [kid[i] EXCEPT !.st = "send"] /\ kid[i].pos < Blocks[asked[i]]
          \/ kid'[i] = [kid[i] EXCEPT !.st = "end"]
        BY <1>3, <1>8 DEF KidTypes, KidGoto
    <2>3. CASE kid'[i] = [st |-> "send", box |-> kid[i].box, pos |-> kid[i].pos] /\ kid[i].pos < Blocks[asked[i]]
        BY <1>3, <1>6, <2>1, <2>3
    <2>4. CASE kid'[i] = [st |-> "end", box |-> kid[i].box, pos |-> kid[i].pos]
        BY <1>3, <1>6, <2>1, <2>4
    <2>5. QED
        BY <1>7, <2>2, <2>3, <2>4
<1>9. CASE KidOpenQueue(i)
    <2>1. UNCHANGED box
        BY <1>9 DEF KidOpenQueue
    <2>2. CASE KidEnds(i)
        BY <1>1, <1>2, <1>5, <2>1, <2>2 DEF KidMessage
    <2>3. ASSUME NEW b \in linked, b[1] = i[1], kid' = [kid EXCEPT ![i].box = b, ![i].st = "open"],
                 chld' = chld
          PROVE  KidOnly(i)
        <3>1. b \in Id
            BY DEF TypeOK, BoxTypes
        <3>2. Private(i[1]) => b = i
            <4>1. ~Sysv
                BY <1>2, <1>9 DEF KidOpenQueue, Boxes
            <4>2. i[1] \notin killed => i = Me(i[1]) /\ b = Me(b[1])
                BY <1>2, <2>3 DEF Boxes, Requests
            <4>3. QED
                BY <2>3, <4>1, <4>2 DEF Private
        <3>3. kid' = [j \in Id |-> kid'[j]] /\ \A j \in Id : j # i => kid'[j] = kid[j]
            BY <1>3, <2>3 DEF KidTypes
        <3>4. kid'[i] = [[kid[i] EXCEPT !.box = b] EXCEPT !.st = "open"]
            BY <1>3, <2>3 DEF KidTypes
        <3>5. kid'[i] = [st |-> "open", box |-> b, pos |-> kid[i].pos]
            BY <1>7, <3>4
        <3>6. QED
            BY <1>3, <1>6, <2>3, <3>1, <3>2, <3>3, <3>5
    <2>4. QED
        BY <1>1, <1>2, <1>9, <2>1, <2>2, <2>3 DEF KidOpenQueue, KidMessage
<1>10. CASE KidFailure(i)
    BY <1>1, <1>2, <1>5, <1>10 DEF KidFailure, KidMessage, Messages
<1>11. CASE KidRead(i)
    <2>1. KidOnly(i) /\ UNCHANGED box
        BY <1>8, <1>11 DEF KidRead
    <2>2. QED
        BY <1>1, <1>2, <2>1 DEF KidMessage
<1>12. CASE KidSend(i)
    <2>1. CASE Put(kid[i].box, Data(asked[i], kid[i].pos + 1)) /\ KidSent(i)
        <3>1. kid' = [j \in Id |-> kid'[j]] /\ \A j \in Id : j # i => kid'[j] = kid[j]
            BY <1>3, <2>1 DEF KidTypes, KidSent
        <3>2. kid'[i] = [[kid[i] EXCEPT !.st = "open"] EXCEPT !.pos = @ + 1] /\ chld' = chld
            BY <1>3, <2>1 DEF KidTypes, KidSent
        <3>3. kid'[i] = [st |-> "open", box |-> kid[i].box, pos |-> kid[i].pos + 1]
            BY <1>7, <3>2
        <3>4. kid[i].pos + 1 \in 0..Blocks[asked[i]] \cup {0}
            <4>1. kid[i].pos < Blocks[asked[i]]
                BY <1>3, <1>12 DEF KidTypes, KidSend
            <4>2. QED
                BY <1>3, <4>1
        <3>5. KidOnly(i)
            BY <1>3, <1>6, <3>1, <3>2, <3>3, <3>4
        <3>6. asked[i] \in File
            BY DEF TypeOK, ClientTypes
        <3>7. /\ Data(asked[i], kid[i].pos + 1) \in Messages
              /\ Data(asked[i], kid[i].pos + 1).type = "DATA"
            BY <1>3, <3>6 DEF Data, Messages
        <3>8. QED
            BY <1>1, <1>2, <2>1, <3>5, <3>7 DEF KidMessage
    <2>2. CASE KidGoto(i, "end") /\ UNCHANGED box
        BY <1>1, <1>2, <1>8, <2>2 DEF KidMessage
    <2>3. QED
        BY <1>12, <2>1, <2>2 DEF KidSend
<1>13. CASE KidEnd(i)
    BY <1>1, <1>2, <1>5, <1>13 DEF KidEnd, KidMessage, Messages
<1>14. QED
    BY <1>9, <1>10, <1>11, <1>12, <1>13 DEF KidStep

\* What is put in a queue that has room for it stays within the limit.
LEMMA PutFits ==
    ASSUME BoxTypes, variant' = variant, linked' = linked, NEW b \in Id, NEW m \in Messages, Put(b, m)
    PROVE  /\ BoxTypes'
           /\ \A j \in Id : j # b => box'[j] = box[j]
           /\ box'[b] = Append(box[b], m)
<1>1. box[b] \in Seq(Messages) /\ Used(box[b]) <= Cap /\ Cap \in Nat
    BY FileServerAssumption DEF BoxTypes
<1>2. /\ \A j \in Id : j # b => box'[j] = box[j]
      /\ box'[b] = Append(box[b], m)
    BY DEF Put, BoxTypes
<1>3. box' \in [Id -> Seq(Messages)] /\ linked' \subseteq Id
    <2>1. Append(box[b], m) \in Seq(Messages)
        BY <1>1
    <2>2. QED
        BY <2>1 DEF Put, BoxTypes
<1>4. Used(Append(box[b], m)) <= Cap
    <2>1. /\ Used(box[b]) \in Nat /\ Used(Append(box[b], m)) <= Used(box[b]) + 1
          /\ Sysv /\ m.type # "DATA" => Used(Append(box[b], m)) = Used(box[b])
        BY <1>1, UsedFacts
    <2>2. Used(Append(box[b], m)) \in Nat
        BY <1>1, UsedFacts, Append(box[b], m) \in Seq(Messages)
    <2>3. Fits(b, m)
        BY DEF Put
    <2>4. QED
        BY <1>1, <2>1, <2>2, <2>3 DEF Fits
<1>5. \A j \in Id : Used(box[j])' = Used(box'[j])
    BY DEF Used, Sysv
<1>6. \A j \in Id : Used(box[j])' <= Cap
    <2> SUFFICES ASSUME NEW j \in Id PROVE Used(box[j])' <= Cap
        OBVIOUS
    <2>1. CASE j = b
        BY <1>2, <1>4, <1>5, <2>1
    <2>2. CASE j # b
        BY <1>2, <1>5, <2>2 DEF BoxTypes
    <2>3. QED
        BY <2>1, <2>2
<1>7. QED
    BY <1>2, <1>3, <1>6 DEF BoxTypes

LEMMA KidControl ==
    ASSUME Control, NEW i \in Id, KidStep(i)
    PROVE  Control'
<1> USE DEF Control
<1>1. UNCHANGED kidUnchanged /\ i \in Serving /\ KidOnly(i) /\ KidMessage(i)
    BY KidFrame
<1>2. /\ UNCHANGED <<variant, spc, starts, cur, hand, offspring, skey, sq, file, clients, linked, killed>>
      /\ Pending' = Pending /\ Fresh' = Fresh
      /\ \A p : Me(p)' = Me(p) /\ Waiting(p)' = Waiting(p) /\ Private(p)' = Private(p)
    BY <1>1 DEF kidUnchanged, Pending, Fresh, Me, Waiting, Private, Sysv, clients
<1>3. /\ ServerTypes /\ KidTypes /\ BoxTypes /\ ClientTypes
      /\ kid[i].box \in Id /\ kid[i].box[1] = i[1] /\ (Private(i[1]) => kid[i].box = i)
    BY <1>1 DEF TypeOK, KidTypes, Boxes
<1>4. /\ \A j \in Id : j # i => kid'[j] = kid[j] /\ (j \in Serving' <=> j \in Serving)
                                /\ (j \in Zombies' <=> j \in Zombies) /\ Ended(j)' = Ended(j)
      /\ ~Ended(i)
    BY <1>1 DEF KidOnly, Serving, Zombies, Ended
<1>5. i \notin Pending /\ i \notin Fresh
    BY <1>1 DEF Requests, Serving
<1>6. ASSUME box' = box PROVE BoxTypes' /\ Finals'
    <2>1. BoxTypes'
        BY <1>2, <1>3, <1>6 DEF BoxTypes, Used, Sysv
    <2>2. Finals'
        <3>1. \A p \in Pid : cpc[p] # "idle" => Me(p) \in Id
            BY DEF TypeOK, ClientTypes
        <3>2. QED
            BY <1>2, <1>4, <1>6, <3>1 DEF Finals, clients
    <2>3. QED
        BY <2>1, <2>2
<1>7. ASSUME NEW m \in Messages, Put(kid[i].box, m), m.type # "DATA" => Ended(i)'
      PROVE  BoxTypes' /\ Finals'
    <2>1. /\ BoxTypes'
          /\ \A j \in Id : j # kid[i].box => box'[j] = box[j]
          /\ box'[kid[i].box] = Append(box[kid[i].box], m)
        BY <1>2, <1>3, <1>7, PutFits
    <2>2. \A j \in Fresh : Private(j[1]) => box'[j] = <<>>
        <3>1. \A j \in Id : Private(j[1]) /\ j # i => j # kid[i].box
            BY <1>3
        <3>2. QED
            BY <1>5, <2>1, <3>1 DEF Finals, Fresh
    <2>3. ASSUME NEW p \in Pid, Private(p), cpc[p] # "idle", NEW n \in DOMAIN box'[Me(p)],
                 box'[Me(p)][n].type # "DATA"
          PROVE  Ended(Me(p))'
        <3>1. Me(p) \in Id /\ Me(p)[1] = p /\ Me(p)' = Me(p)
            BY <1>2, <2>3 DEF TypeOK, ClientTypes, Me
        <3>2. CASE Me(p) # kid[i].box
            <4>1. Ended(Me(p))
                BY <2>1, <2>3, <3>1, <3>2 DEF Finals
            <4>2. QED
                BY <1>4, <3>1, <4>1
        <3>3. CASE Me(p) = kid[i].box
            <4>1. Me(p) = i
                BY <1>3, <2>3, <3>1, <3>3
            <4>2. \A k \in DOMAIN box[i] : box[i][k].type = "DATA"
                BY <1>4, <2>3, <3>1, <4>1 DEF Finals
            <4>3. box'[i] = Append(box[i], m) /\ box[i] \in Seq(Messages)
                BY <1>3, <2>1, <3>3, <4>1 DEF BoxTypes
            <4>4. n \notin DOMAIN box[i] => box'[i][n] = m
                BY <2>3, <4>1, <4>3
            <4>5. n \in DOMAIN box[i] => box'[i][n] = box[i][n]
                BY <2>3, <4>1, <4>3
            <4>6. m.type # "DATA"
                BY <2>3, <4>1, <4>2, <4>4, <4>5
            <4>7. QED
                BY <1>7, <3>1, <4>1, <4>6
        <3>4. QED
            BY <3>2, <3>3
    <2>4. Finals'
        <3>1. \A p \in Pid : Private(p) /\ cpc[p] # "idle" =>
                \A n \in DOMAIN box'[Me(p)] : box'[Me(p)][n].type # "DATA" => Ended(Me(p))'
            BY <2>3
        <3>2. QED
            BY <1>2, <2>2, <3>1 DEF Finals, clients
    <2>5. QED
        BY <2>1, <2>4
<1>8. BoxTypes' /\ Finals'
    BY <1>1, <1>6, <1>7 DEF KidMessage
<1>9. ServerTypes'
    <2>1. offspring' \subseteq Serving' \cup Zombies'
        BY <1>1, <1>2, <1>3, <1>4 DEF ServerTypes, KidOnly, Serving, Zombies
    <2>2. QED
        BY <1>1, <1>2, <1>3, <2>1 DEF ServerTypes, KidOnly
<1>10. TypeOK'
    BY <1>1, <1>2, <1>3, <1>8, <1>9 DEF TypeOK, ClientTypes, clients, KidOnly, Me
<1>11. Requests'
    <2>1. \A j \in Serving' : j \in Serving
        BY <1>1, <1>4 DEF Serving
    <2>2. \A j \in Pending \cup Fresh : j \in Id /\ kid'[j] = kid[j]
        BY <1>4, <1>5 DEF Pending, Fresh
    <2>3. Distinct'
        BY <1>2 DEF Requests, Distinct
    <2>4. QED
        BY <1>2, <2>1, <2>2, <2>3 DEF Requests
<1>12. Boxes'
    <2>1. \A j \in Serving' : /\ kid'[j].st = "queue" => ~Sysv
                              /\ kid'[j].box[1] = j[1] /\ (Private(j[1]) => kid'[j].box = j)
        <3> SUFFICES ASSUME NEW j \in Serving'
                     PROVE /\ kid'[j].st = "queue" => ~Sysv
                           /\ kid'[j].box[1] = j[1] /\ (Private(j[1]) => kid'[j].box = j)
            OBVIOUS
        <3>1. CASE j = i
            BY <1>1, <3>1 DEF KidOnly
        <3>2. CASE j # i
            BY <1>4, <3>2 DEF Boxes, Serving
        <3>3. QED
            BY <3>1, <3>2
    <2>2. QED
        BY <1>2, <2>1 DEF Boxes, clients, Sysv
<1>13. QED
    BY <1>8, <1>10, <1>11, <1>12

\* A new process with pid p has no child, no request and an empty queue.
LEMMA StartFrame ==
    ASSUME Control, NEW p \in Pid, ClStart(p)
    PROVE  /\ UNCHANGED <<variant, server, skey, sq, file, kid, got, box, history>>
           /\ cpc[p] = "idle" /\ runs' = [runs EXCEPT ![p] = runs[p] + 1]
           /\ Me(p)' = <<p, runs[p] + 1>> /\ Me(p)' \in Id /\ Me(p)' \in Fresh
           /\ \/ UNCHANGED <<cpc, sid, asked, linked>>
              \/ /\ cpc' = [cpc EXCEPT ![p] = "send"] /\ linked' = linked \cup {Me(p)'}
                 /\ \E s \in Nat : sid' = [sid EXCEPT ![p] = s]
                 /\ \E f \in File : asked' = [asked EXCEPT ![Me(p)'] = f]
           /\ \A q \in Pid : q # p => Me(q)' = Me(q) /\ cpc'[q] = cpc[q]
           /\ cpc'[p] \in {"idle", "send"} /\ Fresh' \subseteq Fresh
<1>1. ServerTypes /\ ClientTypes /\ runs[p] \in Nat /\ \A q \in Pid : runs[q] \in Nat
    BY DEF Control, TypeOK, ClientTypes
<1>2. /\ UNCHANGED <<variant, server, skey, sq, file, kid, got, box, history>>
      /\ cpc[p] = "idle" /\ runs' = [runs EXCEPT ![p] = runs[p] + 1] /\ runs[p] < MaxRuns[p]
    BY DEF ClStart
<1>3. Me(p)' = <<p, runs[p] + 1>> /\ Me(p)' \in Id
    <2>1. runs'[p] = runs[p] + 1
        BY <1>1, <1>2 DEF ClientTypes
    <2>2. runs[p] + 1 \in 1..MaxRuns[p]
        BY <1>1, <1>2, Ids
    <2>3. QED
        BY <2>1, <2>2, Ids DEF Me
<1>4. Me(p)' \in Fresh
    BY <1>1, <1>3 DEF Fresh
<1>5. \/ UNCHANGED <<cpc, sid, asked, linked>>
      \/ /\ cpc' = [cpc EXCEPT ![p] = "send"] /\ linked' = linked \cup {Me(p)'}
         /\ \E s \in Nat : sid' = [sid EXCEPT ![p] = s]
         /\ \E f \in File : asked' = [asked EXCEPT ![Me(p)'] = f]
    <2>1. skey \in Nat /\ file \in Nat \cup {Empty}
        BY <1>1 DEF ServerTypes
    <2>2. Asks[p] \subseteq File
        BY FileServerAssumption
    <2>3. QED
        BY <2>1, <2>2 DEF ClStart, Goto
<1>6. /\ \A q \in Pid : q # p => Me(q)' = Me(q) /\ cpc'[q] = cpc[q] /\ runs'[q] = runs[q]
      /\ cpc'[p] \in {"idle", "send"}
    BY <1>1, <1>2, <1>5 DEF ClientTypes, Me
<1>7. Fresh' \subseteq Fresh
    <2>1. SUFFICES ASSUME NEW i \in Fresh' PROVE i \in Fresh
        OBVIOUS
    <2>2. i \in Id /\ i[1] \in Pid /\ i[2] \in Nat /\ i = <<i[1], i[2]>>
        BY Ids DEF Fresh
    <2>3. CASE i[1] = p
        <3>1. runs'[p] = runs[p] + 1
            BY <1>1, <1>2 DEF ClientTypes
        <3>2. i[2] > runs'[p] \/ i = Me(p)'
            BY <2>3 DEF Fresh
        <3>3. i[2] > runs[p]
            BY <1>1, <1>3, <2>2, <3>1, <3>2
        <3>4. QED
            BY <2>2, <2>3, <3>3 DEF Fresh
    <2>4. CASE i[1] # p
        BY <1>6, <2>2, <2>4 DEF Fresh
    <2>5. QED
        BY <2>3, <2>4
<1>8. QED
    BY <1>2, <1>3, <1>4, <1>5, <1>6, <1>7

LEMMA StartControl ==
    ASSUME Control, NEW p \in Pid, ClStart(p)
    PROVE  Control'
<1> USE DEF Control
<1> DEFINE new == <<p, runs[p] + 1>>
<1>1. /\ UNCHANGED <<variant, server, skey, sq, file, kid, got, box, history>>
      /\ cpc[p] = "idle" /\ runs' = [runs EXCEPT ![p] = runs[p] + 1]
      /\ Me(p)' = new /\ new \in Id /\ new \in Fresh
      /\ \/ UNCHANGED <<cpc, sid, asked, linked>>
         \/ /\ cpc' = [cpc EXCEPT ![p] = "send"] /\ linked' = linked \cup {new}
            /\ \E s \in Nat : sid' = [sid EXCEPT ![p] = s]
            /\ \E f \in File : asked' = [asked EXCEPT ![new] = f]
      /\ \A q \in Pid : q # p => Me(q)' = Me(q) /\ cpc'[q] = cpc[q]
      /\ cpc'[p] \in {"idle", "send"} /\ Fresh' \subseteq Fresh
    BY StartFrame
<1>2. new[1] = p
    OBVIOUS
<1> HIDE DEF new
<1>3. ServerTypes /\ KidTypes /\ BoxTypes /\ ClientTypes
    BY DEF TypeOK
<1>4. Pending' = Pending /\ Serving' = Serving /\ \A i : Private(i[1])' = Private(i[1])
    BY <1>1 DEF Pending, Serving, Private, Sysv, server, history
<1>5. \A j \in Pending \cup Serving : j[1] \notin killed => j[1] # p
    BY <1>1 DEF Requests, Waiting
<1>6. \A j \in Id : j # new => asked'[j] = asked[j]
    BY <1>1, <1>3 DEF ClientTypes
<1>7. kid[new].pos = 0 /\ kid[new].st = "none"
    BY <1>1 DEF Requests
<1>8. ServerTypes'
    BY <1>1, <1>3 DEF ServerTypes, server, Serving, Zombies
<1>9. KidTypes'
    <2>1. \A i \in Id : /\ kid'[i].pos \in 0..Blocks[asked'[i]] \cup {0}
                        /\ kid'[i].st = "send" => kid'[i].pos < Blocks[asked'[i]]
        <3> SUFFICES ASSUME NEW i \in Id
                     PROVE  /\ kid'[i].pos \in 0..Blocks[asked'[i]] \cup {0}
                            /\ kid'[i].st = "send" => kid'[i].pos < Blocks[asked'[i]]
            OBVIOUS
        <3>1. CASE i = new
            BY <1>1, <1>7, <3>1
        <3>2. CASE i # new
            BY <1>1, <1>3, <1>6, <3>2 DEF KidTypes
        <3>3. QED
            BY <3>1, <3>2
    <2>2. QED
        BY <1>1, <1>3, <2>1 DEF KidTypes
<1>10. BoxTypes'
    BY <1>1, <1>3 DEF BoxTypes, Used, Sysv
<1>11. ClientTypes'
    <2>1. /\ cpc' \in [Pid -> {"idle", "send", "first", "more"}]
          /\ sid' \in [Pid -> Nat] /\ asked' \in [Id -> File] /\ got' \in [Pid -> Seq(Messages)]
        BY <1>1, <1>3 DEF ClientTypes
    <2>2. runs' \in [Pid -> Nat] /\ runs'[p] <= MaxRuns[p]
        <3>1. runs'[p] = runs[p] + 1 /\ runs[p] < MaxRuns[p] /\ runs[p] \in Nat /\ MaxRuns[p] \in Nat
            BY <1>1, <1>3, Ids DEF ClientTypes, ClStart
        <3>2. QED
            BY <1>1, <1>3, <3>1 DEF ClientTypes
    <2>3. \A q \in Pid : runs'[q] <= MaxRuns[q] /\ (cpc'[q] # "idle" => Me(q)' \in Id)
        <3> SUFFICES ASSUME NEW q \in Pid
                     PROVE  runs'[q] <= MaxRuns[q] /\ (cpc'[q] # "idle" => Me(q)' \in Id)
            OBVIOUS
        <3>1. CASE q = p
            BY <1>1, <2>2, <3>1
        <3>2. CASE q # p
            BY <1>1, <1>3, <3>2 DEF ClientTypes
        <3>3. QED
            BY <3>1, <3>2
    <2>4. QED
        BY <2>1, <2>2, <2>3 DEF ClientTypes
<1>12. Requests'
    <2>1. Distinct'
        BY <1>1 DEF Requests, Distinct, server
    <2>2. \A j \in Pending \cup Serving : j[1] \notin killed => Waiting(j[1])' /\ j = Me(j[1])'
        <3> SUFFICES ASSUME NEW j \in Pending \cup Serving, j[1] \notin killed
                     PROVE  Waiting(j[1])' /\ j = Me(j[1])'
            OBVIOUS
        <3>1. j[1] # p /\ Waiting(j[1]) /\ j = Me(j[1]) /\ j[1] \in Pid
            BY <1>5, Ids DEF Requests, Pending, Serving
        <3>2. QED
            BY <1>1, <3>1 DEF Waiting
    <2>3. QED
        BY <1>1, <1>4, <2>1, <2>2 DEF Requests, history
<1>13. Boxes'
    <2>1. \A b \in linked' : b[1] \notin killed => b = Me(b[1])' /\ cpc'[b[1]] # "idle"
        <3> SUFFICES ASSUME NEW b \in linked', b[1] \notin killed
                     PROVE  b = Me(b[1])' /\ cpc'[b[1]] # "idle"
            OBVIOUS
        <3>1. CASE b \in linked
            <4>1. b = Me(b[1]) /\ cpc[b[1]] # "idle" /\ b[1] \in Pid
                BY <1>3, <3>1, Ids DEF Boxes, BoxTypes
            <4>2. QED
                BY <1>1, <4>1
        <3>2. CASE b = new /\ cpc' = [cpc EXCEPT ![p] = "send"]
            BY <1>1, <1>2, <1>3, <3>2 DEF ClientTypes
        <3>3. QED
            BY <1>1, <3>1, <3>2
    <2>2. \A q \in Pid : cpc'[q] # "idle" => Me(q)' \in linked'
        <3> SUFFICES ASSUME NEW q \in Pid, cpc'[q] # "idle" PROVE Me(q)' \in linked'
            OBVIOUS
        <3>1. CASE q = p
            BY <1>1, <3>1
        <3>2. CASE q # p
            BY <1>1, <3>2 DEF Boxes
        <3>3. QED
            BY <3>1, <3>2
    <2>3. QED
        BY <1>1, <1>4, <2>1, <2>2 DEF Boxes, history, Sysv, Private, Serving
<1>14. Finals'
    <2>1. \A i \in Fresh' : Private(i[1]) => box'[i] = <<>>
        BY <1>1 DEF Finals
    <2>2. ASSUME NEW q \in Pid, Private(q), cpc'[q] # "idle", NEW n \in DOMAIN box[Me(q)'],
                 box[Me(q)'][n].type # "DATA"
          PROVE  Ended(Me(q))'
        <3>1. CASE q = p
            <4>1. box[Me(q)'] = <<>>
                BY <1>1, <1>2, <2>2, <3>1 DEF Finals
            <4>2. QED
                BY <2>2, <4>1
        <3>2. CASE q # p
            <4>1. Ended(Me(q)) /\ Me(q)' = Me(q)
                BY <1>1, <2>2, <3>2 DEF Finals
            <4>2. QED
                BY <1>1, <4>1 DEF Ended
        <3>3. QED
            BY <3>1, <3>2
    <2>3. \A q : Private(q)' = Private(q)
        BY <1>1 DEF Private, Sysv, history
    <2>4. QED
        BY <1>1, <2>1, <2>2, <2>3 DEF Finals
<1>15. QED
    BY <1>8, <1>9, <1>10, <1>11, <1>12, <1>13, <1>14 DEF TypeOK

\* Messages are taken from a queue, or it is removed with what it holds.
Taken(b) == \/ box' = box
            \/ box[b] # <<>> /\ box' = [box EXCEPT ![b] = Tail(box[b])]
            \/ box' = [box EXCEPT ![b] = <<>>]

LEMMA TakenFits ==
    ASSUME BoxTypes, variant' = variant, linked' \subseteq linked, NEW b \in Id, Taken(b)
    PROVE  /\ BoxTypes'
           /\ \A j \in Id : j # b => box'[j] = box[j]
           /\ \A n \in DOMAIN box'[b] : \E k \in DOMAIN box[b] : box'[b][n] = box[b][k]
           /\ box[b] = <<>> => box'[b] = <<>>
<1>1. box[b] \in Seq(Messages) /\ Used(box[b]) <= Cap /\ Cap \in Nat
    BY FileServerAssumption DEF BoxTypes
<1>2. /\ \A j \in Id : j # b => box'[j] = box[j]
      /\ \/ box'[b] = box[b]
         \/ box[b] # <<>> /\ box'[b] = Tail(box[b])
         \/ box'[b] = <<>>
    BY DEF Taken, BoxTypes
<1>3. box'[b] \in Seq(Messages) /\ Used(box'[b]) <= Cap
    <2>1. CASE box'[b] = box[b]
        BY <1>1, <2>1
    <2>2. CASE box[b] # <<>> /\ box'[b] = Tail(box[b])
        <3>1. Tail(box[b]) \in Seq(Messages)
            BY <1>1, <2>2
        <3>2. Used(Tail(box[b])) \in Nat /\ Used(box[b]) \in Nat /\ Used(Tail(box[b])) <= Used(box[b])
            BY <1>1, <2>2, <3>1, UsedFacts
        <3>3. QED
            BY <1>1, <2>2, <3>1, <3>2
    <2>3. CASE box'[b] = <<>>
        BY <1>1, <2>3, UsedFacts
    <2>4. QED
        BY <1>2, <2>1, <2>2, <2>3
<1>4. box' \in [Id -> Seq(Messages)]
    BY <1>2, <1>3 DEF Taken, BoxTypes
<1>5. \A j \in Id : Used(box[j])' = Used(box'[j])
    BY DEF Used, Sysv
<1>6. \A j \in Id : Used(box[j])' <= Cap
    BY <1>2, <1>3, <1>5 DEF BoxTypes
<1>7. \A n \in DOMAIN box'[b] : \E k \in DOMAIN box[b] : box'[b][n] = box[b][k]
    <2>1. CASE box[b] # <<>> /\ box'[b] = Tail(box[b])
        <3>1. \A n \in DOMAIN Tail(box[b]) : n + 1 \in DOMAIN box[b] /\ Tail(box[b])[n] = box[b][n + 1]
            BY <1>1, <2>1
        <3>2. QED
            BY <2>1, <3>1
    <2>2. CASE box'[b] = <<>>
        BY <2>2
    <2>3. QED
        BY <1>2, <2>1, <2>2
<1>8. QED
    BY <1>2, <1>4, <1>6, <1>7 DEF BoxTypes

\* A step of a client that makes no request: it goes on, or it ends or is killed.
LEMMA ClientControl ==
    ASSUME Control, NEW p \in Pid, cpc[p] # "idle",
           UNCHANGED <<variant, server, skey, sq, file, kid, runs, sid, asked>>,
           NEW l \in {"idle", "more"}, cpc' = [cpc EXCEPT ![p] = l], got' \in [Pid -> Seq(Messages)],
           linked' = linked \/ linked' = linked \ {Me(p)},
           killed' = killed \/ killed' = killed \cup {p},
           l = "more" => Waiting(p) /\ linked' = linked,
           l = "idle" => \/ p \in killed'
                         \/ linked' = linked \ {Me(p)} /\ \A j \in Pending \cup Serving : j[1] # p,
           Taken(Me(p))
    PROVE  Control'
<1> USE DEF Control
<1>1. ServerTypes /\ KidTypes /\ BoxTypes /\ ClientTypes /\ Me(p) \in Id /\ Me(p)[1] = p
    BY DEF TypeOK, ClientTypes, Me
<1>2. /\ BoxTypes'
      /\ \A j \in Id : j # Me(p) => box'[j] = box[j]
      /\ \A n \in DOMAIN box'[Me(p)] : \E k \in DOMAIN box[Me(p)] : box'[Me(p)][n] = box[Me(p)][k]
      /\ box[Me(p)] = <<>> => box'[Me(p)] = <<>>
    BY <1>1, TakenFits
<1>3. /\ Pending' = Pending /\ Serving' = Serving /\ \A i : Ended(i)' = Ended(i)
      /\ \A i : Private(i[1])' => Private(i[1])
      /\ \A q : Me(q)' = Me(q) /\ (Private(q)' => Private(q))
    BY DEF Pending, Serving, Private, Sysv, server, Ended, Me
<1>4. cpc'[p] = l /\ \A q \in Pid : q # p => cpc'[q] = cpc[q]
    BY <1>1 DEF ClientTypes
<1>5. Fresh' \subseteq Fresh
    BY <1>3, <1>4, Ids DEF Fresh
<1>6. TypeOK'
    <2>1. ServerTypes'
        BY <1>1 DEF ServerTypes, server, Serving, Zombies
    <2>2. KidTypes'
        BY <1>1 DEF KidTypes
    <2>3. \A q \in Pid : runs'[q] <= MaxRuns[q] /\ (cpc'[q] # "idle" => Me(q)' \in Id)
        BY <1>1, <1>3, <1>4 DEF ClientTypes
    <2>4. ClientTypes'
        BY <1>1, <2>3 DEF ClientTypes
    <2>5. QED
        BY <1>2, <2>1, <2>2, <2>4 DEF TypeOK
<1>7. Requests'
    <2>1. Distinct'
        BY DEF Requests, Distinct, server
    <2>2. \A j \in Pending \cup Serving : j[1] \notin killed' => Waiting(j[1])' /\ j = Me(j[1])'
        <3> SUFFICES ASSUME NEW j \in Pending \cup Serving, j[1] \notin killed'
                     PROVE  Waiting(j[1])' /\ j = Me(j[1])'
            OBVIOUS
        <3>1. Waiting(j[1]) /\ j = Me(j[1]) /\ j[1] \in Pid
            BY Ids DEF Requests, Pending, Serving
        <3>2. CASE j[1] = p
            BY <1>3, <1>4, <3>1, <3>2 DEF Waiting
        <3>3. CASE j[1] # p
            BY <1>3, <1>4, <3>1, <3>3 DEF Waiting
        <3>4. QED
            BY <3>2, <3>3
    <2>3. QED
        BY <1>3, <1>5, <2>1, <2>2 DEF Requests
<1>8. Boxes'
    <2>1. \A b \in linked' : b[1] \notin killed' => b = Me(b[1])' /\ cpc'[b[1]] # "idle"
        <3> SUFFICES ASSUME NEW b \in linked', b[1] \notin killed'
                     PROVE  b = Me(b[1])' /\ cpc'[b[1]] # "idle"
            OBVIOUS
        <3>1. b \in linked /\ b = Me(b[1]) /\ cpc[b[1]] # "idle" /\ b[1] \in Pid
            BY <1>1, Ids DEF Boxes, BoxTypes
        <3>2. CASE b[1] = p
            BY <1>3, <1>4, <3>1, <3>2
        <3>3. CASE b[1] # p
            BY <1>3, <1>4, <3>1, <3>3
        <3>4. QED
            BY <3>2, <3>3
    <2>2. \A q \in Pid : cpc'[q] # "idle" => Me(q)' \in linked'
        <3> SUFFICES ASSUME NEW q \in Pid, cpc'[q] # "idle" PROVE Me(q)' \in linked'
            OBVIOUS
        <3>1. CASE q = p
            BY <1>3, <1>4, <3>1 DEF Boxes
        <3>2. CASE q # p
            <4>1. Me(q)[1] = q /\ Me(q) \in linked
                BY <1>4, <3>2 DEF Me, Boxes
            <4>2. QED
                BY <1>1, <1>3, <3>2, <4>1
        <3>3. QED
            BY <3>1, <3>2
    <2>3. \A i \in Serving : /\ kid[i].st = "queue" => ~Sysv
                             /\ kid[i].box[1] = i[1] /\ (Private(i[1])' => kid[i].box = i)
        BY <1>3 DEF Boxes
    <2>4. QED
        BY <1>3, <2>1, <2>2, <2>3 DEF Boxes, Sysv
<1>9. Finals'
    <2>1. \A i \in Fresh' : Private(i[1])' => box'[i] = <<>>
        BY <1>2, <1>3, <1>5 DEF Finals, Fresh
    <2>2. ASSUME NEW q \in Pid, Private(q)', cpc'[q] # "idle", NEW n \in DOMAIN box'[Me(q)],
                 box'[Me(q)][n].type # "DATA"
          PROVE  Ended(Me(q))
        <3>1. Private(q) /\ cpc[q] # "idle" /\ Me(q) \in Id
            BY <1>1, <1>3, <1>4, <2>2 DEF ClientTypes
        <3>2. PICK k \in DOMAIN box[Me(q)] : box'[Me(q)][n] = box[Me(q)][k]
            BY <1>2, <2>2, <3>1
        <3>3. QED
            BY <2>2, <3>1, <3>2 DEF Finals
    <2>3. QED
        BY <1>3, <2>1, <2>2 DEF Finals
<1>10. QED
    BY <1>6, <1>7, <1>8, <1>9

\* A client that sends its request has none before it and no child, and waits.
LEMMA SendFrame ==
    ASSUME Control, NEW p \in Pid, cpc[p] = "send",
           UNCHANGED <<variant, server, skey, file, kid, runs, sid, asked, got, linked, box, history>>,
           cpc' = [cpc EXCEPT ![p] = "first"],
           sq' = sq \/ (sq' = Append(sq, Me(p)) /\ Len(sq) < ServerCap)
    PROVE  /\ Me(p) \in Fresh /\ Me(p) \in Id /\ Me(p)[1] = p /\ Me(p) \notin Pending
           /\ cpc'[p] = "first" /\ \A q \in Pid : q # p => cpc'[q] = cpc[q]
           /\ Pending' \subseteq Pending \cup {Me(p)}
           /\ Distinct' /\ sq' \in Seq(Id) /\ Len(sq') <= ServerCap
           /\ Fresh' \subseteq Fresh /\ Me(p) \notin Fresh'
<1> USE DEF Control
<1>1. sq \in Seq(Id) /\ Len(sq) <= ServerCap /\ ServerCap \in Nat /\ runs[p] \in Nat
    BY FileServerAssumption DEF TypeOK, ServerTypes, ClientTypes
<1>2. Me(p) \in Id /\ Me(p)[1] = p /\ Me(p)[2] = runs[p] /\ Me(p)' = Me(p)
    BY DEF TypeOK, ClientTypes, Me
<1>3. Me(p) \in Fresh /\ Me(p) \notin Pending
    BY <1>2 DEF Fresh, Requests
<1>4. cpc'[p] = "first" /\ \A q \in Pid : q # p => cpc'[q] = cpc[q]
    BY DEF TypeOK, ClientTypes
<1>5. Fresh' \subseteq Fresh /\ Me(p) \notin Fresh'
    <2>1. \A q : Me(q)' = Me(q)
        BY DEF Me
    <2>2. Fresh' \subseteq Fresh
        BY <1>4, <2>1, Ids DEF Fresh
    <2>3. Me(p) \notin Fresh'
        BY <1>1, <1>2, <1>4, <2>1 DEF Fresh
    <2>4. QED
        BY <2>2, <2>3
<1>6. Pending' \subseteq Pending \cup {Me(p)} /\ Distinct' /\ sq' \in Seq(Id) /\ Len(sq') <= ServerCap
    <2>1. CASE sq' = sq
        BY <1>1, <2>1 DEF Pending, server, Requests, Distinct
    <2>2. CASE sq' = Append(sq, Me(p)) /\ Len(sq) < ServerCap
        <3>1. /\ sq' \in Seq(Id) /\ Len(sq') <= ServerCap
              /\ DOMAIN sq' = DOMAIN sq \cup {Len(sq) + 1} /\ Len(sq) + 1 \notin DOMAIN sq
              /\ sq'[Len(sq) + 1] = Me(p) /\ \A n \in DOMAIN sq : sq'[n] = sq[n]
            BY <1>1, <1>2, <2>2
        <3>2. Pending' \subseteq Pending \cup {Me(p)}
            BY <3>1 DEF Pending, server
        <3>3. \A n \in DOMAIN sq : sq[n] # Me(p)
            BY <1>2, <1>3 DEF Pending
        <3>4. spc = "fork" => cur # Me(p)
            BY <1>2, <1>3 DEF Pending
        <3>5. Distinct'
            BY <3>1, <3>3, <3>4 DEF Requests, Distinct, server
        <3>6. QED
            BY <3>1, <3>2, <3>5
    <2>3. QED
        BY <2>1, <2>2
<1>7. QED
    BY <1>2, <1>3, <1>4, <1>5, <1>6

LEMMA SendControl ==
    ASSUME Control, NEW p \in Pid, cpc[p] = "send",
           UNCHANGED <<variant, server, skey, file, kid, runs, sid, asked, got, linked, box, history>>,
           cpc' = [cpc EXCEPT ![p] = "first"],
           sq' = sq \/ (sq' = Append(sq, Me(p)) /\ Len(sq) < ServerCap)
    PROVE  Control'
<1> USE DEF Control
<1>1. /\ Me(p) \in Fresh /\ Me(p) \in Id /\ Me(p)[1] = p /\ Me(p) \notin Pending
      /\ cpc'[p] = "first" /\ \A q \in Pid : q # p => cpc'[q] = cpc[q]
      /\ Pending' \subseteq Pending \cup {Me(p)}
      /\ Distinct' /\ sq' \in Seq(Id) /\ Len(sq') <= ServerCap
      /\ Fresh' \subseteq Fresh /\ Me(p) \notin Fresh'
    BY SendFrame
<1>2. /\ Serving' = Serving /\ \A i : Ended(i)' = Ended(i)
      /\ \A q : Me(q)' = Me(q) /\ Private(q)' = Private(q)
    BY DEF Serving, Private, Sysv, server, Ended, Me, history
<1>3. ServerTypes /\ KidTypes /\ BoxTypes /\ ClientTypes
    BY DEF TypeOK
<1>4. TypeOK'
    <2>1. ServerTypes'
        BY <1>1, <1>3 DEF ServerTypes, server, Serving, Zombies
    <2>2. KidTypes' /\ BoxTypes'
        BY <1>3 DEF KidTypes, BoxTypes, Used, Sysv
    <2>3. \A q \in Pid : runs'[q] <= MaxRuns[q] /\ (cpc'[q] # "idle" => Me(q)' \in Id)
        BY <1>1, <1>2, <1>3 DEF ClientTypes
    <2>4. ClientTypes'
        BY <1>3, <2>3 DEF ClientTypes
    <2>5. QED
        BY <2>1, <2>2, <2>4 DEF TypeOK
<1>5. Requests'
    <2>1. \A j \in Pending \cup Serving : j[1] \notin killed => Waiting(j[1])' /\ j = Me(j[1])'
        <3> SUFFICES ASSUME NEW j \in Pending \cup Serving, j[1] \notin killed
                     PROVE  Waiting(j[1])' /\ j = Me(j[1])'
            OBVIOUS
        <3>1. Waiting(j[1]) /\ j = Me(j[1]) /\ j[1] \in Pid
            BY Ids DEF Requests, Pending, Serving
        <3>2. j[1] # p
            BY <3>1 DEF Waiting
        <3>3. QED
            BY <1>1, <1>2, <3>1, <3>2 DEF Waiting
    <2>2. Waiting(p)' /\ Me(p) = Me(p)'
        BY <1>1, <1>2 DEF Waiting
    <2>3. kid[Me(p)].st = "none"
        BY <1>1 DEF Requests
    <2>4. \A i \in Fresh' : i \notin Pending'
        BY <1>1 DEF Requests
    <2>5. QED
        BY <1>1, <1>2, <2>1, <2>2, <2>3, <2>4 DEF Requests, history
<1>6. Boxes'
    <2>1. \A b \in linked : b[1] \notin killed => b = Me(b[1])' /\ cpc'[b[1]] # "idle"
        <3> SUFFICES ASSUME NEW b \in linked, b[1] \notin killed
                     PROVE  b = Me(b[1])' /\ cpc'[b[1]] # "idle"
            OBVIOUS
        <3>1. b = Me(b[1]) /\ cpc[b[1]] # "idle" /\ b[1] \in Pid
            BY <1>3, Ids DEF Boxes, BoxTypes
        <3>2. QED
            BY <1>1, <1>2, <3>1
    <2>2. \A q \in Pid : cpc'[q] # "idle" => Me(q)' \in linked
        BY <1>1, <1>2 DEF Boxes
    <2>3. QED
        BY <1>2, <2>1, <2>2 DEF Boxes, Sysv, history
<1>7. Finals'
    <2>1. \A i \in Fresh' : Private(i[1])' => box'[i] = <<>>
        BY <1>1 DEF Finals, Private, Sysv, history
    <2>2. \A q \in Pid : cpc'[q] # "idle" => cpc[q] # "idle"
        BY <1>1
    <2>3. QED
        BY <1>2, <2>1, <2>2 DEF Finals
<1>8. QED
    BY <1>4, <1>5, <1>6, <1>7

LEMMA CleanupControl ==
    ASSUME Control, NEW b \in Id, Cleanup(b)
    PROVE  Control'
<1> USE DEF Control
<1>1. ServerTypes /\ KidTypes /\ BoxTypes /\ ClientTypes
    BY DEF TypeOK
<1>2. /\ UNCHANGED <<variant, server, skey, sq, file, kid, clients, history>>
      /\ linked' = linked \ {b} /\ \A q \in Pid : cpc[q] # "idle" => Me(q) # b
    BY DEF Cleanup, Me
<1>3. Taken(b)
    BY DEF Cleanup, Taken
<1>4. /\ BoxTypes'
      /\ \A j \in Id : j # b => box'[j] = box[j]
      /\ box[b] = <<>> => box'[b] = <<>>
    BY <1>1, <1>2, <1>3, TakenFits
<1>5. /\ Pending' = Pending /\ Serving' = Serving /\ Fresh' = Fresh /\ \A i : Ended(i)' = Ended(i)
      /\ \A q : Me(q)' = Me(q) /\ Private(q)' = Private(q) /\ Waiting(q)' = Waiting(q)
    BY <1>2 DEF Pending, Serving, Fresh, Private, Sysv, server, clients, history, Ended, Me, Waiting
<1>6. TypeOK'
    BY <1>1, <1>2, <1>4 DEF TypeOK, ServerTypes, KidTypes, ClientTypes, server, clients, Serving,
       Zombies, Me
<1>7. Requests'
    BY <1>2, <1>5 DEF Requests, Distinct, server, history
<1>8. Boxes'
    BY <1>2, <1>5 DEF Boxes, clients, history, Sysv
<1>9. Finals'
    <2>1. \A q \in Pid : cpc[q] # "idle" => Me(q) \in Id
        BY <1>1 DEF ClientTypes
    <2>2. QED
        BY <1>2, <1>4, <1>5, <2>1 DEF Finals, clients, Fresh
<1>10. QED
    BY <1>6, <1>7, <1>8, <1>9

\* A client that was not killed and reads the last message of its answer has no
\* child any more.
LEMMA LastRead ==
    ASSUME Control, NEW p \in Pid, Waiting(p), box[Me(p)] # <<>>
    PROVE  /\ Me(p) \in Id /\ box[Me(p)] \in Seq(Messages) /\ Head(box[Me(p)]) \in Messages
           /\ 1 \in DOMAIN box[Me(p)] /\ Head(box[Me(p)]) = box[Me(p)][1]
           /\ Head(box[Me(p)]).type # "DATA" /\ p \notin killed
                 => \A j \in Pending \cup Serving : j[1] # p
<1> USE DEF Control
<1>1. Me(p) \in Id /\ cpc[p] # "idle"
    BY DEF TypeOK, ClientTypes, Waiting
<1>2. box[Me(p)] \in Seq(Messages)
    BY <1>1 DEF TypeOK, BoxTypes
<1>3. 1 \in DOMAIN box[Me(p)] /\ Head(box[Me(p)]) = box[Me(p)][1] /\ Head(box[Me(p)]) \in Messages
    BY <1>2
<1>4. ASSUME Head(box[Me(p)]).type # "DATA", p \notin killed, NEW j \in Pending \cup Serving, j[1] = p
      PROVE  FALSE
    <2>1. Ended(Me(p))
        BY <1>1, <1>3, <1>4 DEF Finals, Private
    <2>2. j = Me(p)
        BY <1>4 DEF Requests
    <2>3. kid[j].st \in {"none", "queue", "open", "send", "end"}
        BY <1>4 DEF Requests, Pending, Serving
    <2>4. QED
        BY <2>1, <2>2, <2>3 DEF Ended
<1>5. QED
    BY <1>1, <1>2, <1>3, <1>4

LEMMA ClStepControl ==
    ASSUME Control, NEW p \in Pid, ClStep(p) \/ ClKilled(p)
    PROVE  Control'
<1> USE DEF Control
<1>1. ClientTypes
    BY DEF TypeOK
<1>2. CASE ClKilled(p)
    <2>1. /\ cpc[p] # "idle" /\ cpc' = [cpc EXCEPT ![p] = "idle"] /\ killed' = killed \cup {p}
          /\ UNCHANGED <<variant, server, skey, sq, file, kid, runs, sid, asked, linked, box>>
        BY <1>2 DEF ClKilled, Goto
    <2>2. got' \in [Pid -> Seq(Messages)]
        BY <1>1, <1>2 DEF ClKilled, ClientTypes
    <2>3. Taken(Me(p))
        BY <2>1 DEF Taken
    <2>4. QED
        BY <2>1, <2>2, <2>3, ClientControl
<1>3. CASE ClSend(p)
    <2>1. CASE sid[p] # skey /\ Sysv /\ ClExit(p) /\ UNCHANGED <<box, done>>
        <3>1. /\ cpc[p] = "send" /\ cpc' = [cpc EXCEPT ![p] = "idle"] /\ killed' = killed
              /\ linked' = linked \ {Me(p)}
              /\ UNCHANGED <<variant, server, skey, sq, file, kid, runs, sid, asked>>
            BY <1>3, <2>1 DEF ClSend, ClExit, Goto
        <3>2. got' \in [Pid -> Seq(Messages)]
            BY <1>1, <2>1 DEF ClExit, ClientTypes
        <3>3. p \in killed' \/ \A j \in Pending \cup Serving : j[1] # p
            BY <3>1 DEF Requests, Waiting
        <3>4. Taken(Me(p))
            BY <2>1 DEF Taken
        <3>5. QED
            BY <3>1, <3>2, <3>3, <3>4, ClientControl
    <2>2. CASE /\ UNCHANGED <<variant, server, skey, file, kid, runs, sid, asked, got, linked, box, history>>
               /\ cpc' = [cpc EXCEPT ![p] = "first"]
               /\ sq' = sq \/ (sq' = Append(sq, Me(p)) /\ Len(sq) < ServerCap)
        BY <1>3, <2>2, SendControl DEF ClSend
    <2>3. QED
        BY <1>3, <2>1, <2>2 DEF ClSend, Goto
<1>4. CASE ClReceive(p)
    <2> DEFINE m == Head(box[Me(p)])
    <2>1. /\ Waiting(p) /\ box[Me(p)] # <<>> /\ cpc[p] # "idle"
          /\ box' = [box EXCEPT ![Me(p)] = Tail(box[Me(p)])]
        BY <1>4 DEF ClReceive, Waiting
    <2>2. m \in Messages /\ (m.type # "DATA" /\ p \notin killed => \A j \in Pending \cup Serving : j[1] # p)
        BY <2>1, LastRead
    <2>3. Taken(Me(p))
        BY <2>1 DEF Taken
    <2>4. CASE /\ m.type = "DATA" /\ Goto(p, "more")
               /\ got' = [got EXCEPT ![p] = Append(@, m)]
               /\ UNCHANGED <<variant, server, skey, sq, file, kid, runs, sid, asked, linked, history>>
        <3>1. got' \in [Pid -> Seq(Messages)]
            BY <1>1, <2>2, <2>4 DEF ClientTypes
        <3>2. killed' = killed
            BY <2>4 DEF history
        <3> HIDE DEF m
        <3>3. QED
            BY <2>1, <2>3, <2>4, <3>1, <3>2, ClientControl DEF Goto
    <2>5. CASE m.type # "DATA" /\ ClExit(p)
        <3>1. /\ cpc' = [cpc EXCEPT ![p] = "idle"] /\ killed' = killed /\ linked' = linked \ {Me(p)}
              /\ UNCHANGED <<variant, server, skey, sq, file, kid, runs, sid, asked>>
            BY <2>5 DEF ClExit, Goto
        <3>2. got' \in [Pid -> Seq(Messages)]
            BY <1>1, <2>5 DEF ClExit, ClientTypes
        <3>3. p \in killed' \/ \A j \in Pending \cup Serving : j[1] # p
            BY <2>2, <2>5, <3>1
        <3> HIDE DEF m
        <3>4. QED
            BY <2>1, <2>3, <3>1, <3>2, <3>3, ClientControl
    <2>6. QED
        BY <1>4, <2>4, <2>5 DEF ClReceive
<1>5. QED
    BY <1>2, <1>3, <1>4 DEF ClStep

LEMMA InitControl == Init => Control
<1> SUFFICES ASSUME Init PROVE Control
    OBVIOUS
<1>1. /\ kid = [i \in Id |-> [st |-> "none", box |-> i, pos |-> 0]]
      /\ cpc = [p \in Pid |-> "idle"] /\ runs = [p \in Pid |-> 0] /\ sq = <<>> /\ spc = "down"
      /\ linked = {} /\ box = [i \in Id |-> <<>>]
    BY DEF Init
<1>2. Serving = {} /\ Zombies = {} /\ Pending = {}
    <2>1. DOMAIN sq = {} /\ spc # "fork" /\ \A i \in Id : kid[i].st = "none"
        BY <1>1
    <2>2. QED
        BY <2>1 DEF Serving, Zombies, Pending
<1>3. asked \in [Id -> File]
    <2>1. (CHOOSE f \in File : TRUE) \in File
        BY FileServerAssumption
    <2>2. asked \in [Id -> {CHOOSE f \in File : TRUE}]
        BY DEF Init
    <2>3. QED
        BY <2>1, <2>2
<1>4. <<>> \in Seq(Messages) /\ Used(<<>>) = 0 /\ Cap \in Nat /\ ServerCap \in Nat
    <2>1. <<>> \in Seq(Messages) /\ Cap \in Nat /\ ServerCap \in Nat
        BY FileServerAssumption
    <2>2. QED
        BY <2>1, UsedFacts
<1>5. ServerTypes
    <2>1. /\ spc = "down" /\ starts = 1 /\ hand = FALSE /\ chld = FALSE /\ offspring = {}
          /\ skey \in {0, 1} /\ file \in {0, Empty, 1} /\ sq = <<>>
        BY DEF Init
    <2>2. sq \in Seq(Id) /\ Len(sq) = 0
        BY <2>1
    <2>3. starts \in Nat /\ skey \in 0..starts /\ file \in (0..starts) \cup {Empty}
        BY <2>1
    <2>4. Len(sq) <= ServerCap
        BY <1>4, <2>2
    <2>5. hand \in BOOLEAN /\ chld \in BOOLEAN
        BY <2>1
    <2>6. QED
        BY <2>1, <2>2, <2>3, <2>4, <2>5 DEF ServerTypes
<1>6. KidTypes
    BY <1>1 DEF KidTypes
<1>7. BoxTypes
    BY <1>1, <1>4 DEF BoxTypes
<1>8. ClientTypes
    <2>1. \A p \in Pid : MaxRuns[p] \in Nat
        BY FileServerAssumption
    <2>2. QED
        BY <1>1, <1>3, <1>4, <2>1 DEF Init, ClientTypes
<1>9. Requests
    BY <1>1, <1>2 DEF Requests, Distinct, Fresh
<1>10. Boxes
    BY <1>1, <1>2 DEF Boxes
<1>11. Finals
    BY <1>1 DEF Finals, Fresh
<1>12. QED
    BY <1>5, <1>6, <1>7, <1>8, <1>9, <1>10, <1>11 DEF Control, TypeOK

LEMMA ControlInductive == Control /\ [Next]_vars => Control'
<1> SUFFICES ASSUME Control, [Next]_vars PROVE Control'
    OBVIOUS
<1>1. CASE \/ SvCreate \/ SvIdFile \/ SvIdWrite \/ SvReceive \/ SvRmid \/ SvUnlink \/ SvKilled
           \/ SvSignal \/ SvReap \/ RemoveQueue \/ RemoveIdFile
    BY <1>1, ServerQuiet, QuietControl
<1>2. CASE SvFork
    BY <1>2, ForkControl
<1>3. ASSUME NEW i \in Id, KidStep(i) PROVE Control'
    BY <1>3, KidControl
<1>4. ASSUME NEW i \in Id, Cleanup(i) PROVE Control'
    BY <1>4, CleanupControl
<1>5. ASSUME NEW p \in Pid, ClStart(p) PROVE Control'
    BY <1>5, StartControl
<1>6. ASSUME NEW p \in Pid, ClStep(p) \/ ClKilled(p) PROVE Control'
    BY <1>6, ClStepControl
<1>7. CASE UNCHANGED vars
    <2>1. TypeOK'
        BY <1>7 DEF vars, server, clients, Control, TypeOK, ServerTypes, KidTypes, BoxTypes,
           ClientTypes, Serving, Zombies, Used, Sysv, Me
    <2>2. /\ Pending' = Pending /\ Serving' = Serving /\ Fresh' = Fresh /\ \A i : Ended(i)' = Ended(i)
          /\ \A q : Me(q)' = Me(q) /\ Private(q)' = Private(q) /\ Waiting(q)' = Waiting(q)
        BY <1>7 DEF vars, Pending, Serving, Fresh, Private, Sysv, server, clients, history, Ended,
           Me, Waiting
    <2>3. Requests'
        BY <1>7, <2>2 DEF vars, Control, Requests, Distinct, server, history
    <2>4. Boxes'
        BY <1>7, <2>2 DEF vars, Control, Boxes, clients, history, Sysv
    <2>5. Finals'
        BY <1>7, <2>2 DEF vars, Control, Finals, clients
    <2>6. QED
        BY <2>1, <2>3, <2>4, <2>5 DEF Control
<1>8. QED
    BY <1>1, <1>2, <1>3, <1>4, <1>5, <1>6, <1>7 DEF Next, SvStep

\* In both programs no queue holds more than its limit, and a child's place in its
\* file stays within the file (svmsg_file_server.c:35, 52_3/svmsg_file_client.c:31).
THEOREM TypeCorrect == Spec => []TypeOK
<1>1. Control => TypeOK
    BY DEF Control
<1>2. QED
    BY InitControl, ControlInductive, <1>1, PTL DEF Spec

\* No two children send to one queue, and none to a queue its client has finished
\* with, except after a client that was killed (52_3/svmsg_file_server.c:25).
THEOREM OneSenderOnly == Spec => []OneSender
<1>1. Control => OneSender
    <2> SUFFICES ASSUME Control, NEW i \in Serving, Sysv \/ i[1] \notin killed
                 PROVE  /\ \A j \in Serving : kid[j].box = kid[i].box => j = i
                        /\ i[1] \in killed \/ (Waiting(i[1]) /\ i = Me(i[1]))
        BY DEF OneSender
    <2>1. kid[i].box = i
        BY DEF Control, Boxes, Private
    <2>2. ASSUME NEW j \in Serving, kid[j].box = i PROVE j = i
        <3>1. j[1] = i[1]
            BY <2>2 DEF Control, Boxes
        <3>2. kid[j].box = j
            BY <3>1 DEF Control, Boxes, Private
        <3>3. QED
            BY <2>2, <3>2
    <2>3. i[1] \in killed \/ (Waiting(i[1]) /\ i = Me(i[1]))
        BY DEF Control, Requests
    <2>4. QED
        BY <2>1, <2>2, <2>3
<1>2. QED
    BY InitControl, ControlInductive, <1>1, PTL DEF Spec

-----------------------------------------------------------------------------
(* What a client reports.                                                  *)

AnswerInv == Answers /\ WholeFile

\* A client's answer is what it was as long as its messages, its file and its child
\* are.
LEMMA SameAnswer ==
    ASSUME NEW p \in Pid, InOrder(p), Progress(p), Me(p)' = Me(p), got'[p] = got[p],
           box'[Me(p)] = box[Me(p)], asked'[Me(p)] = asked[Me(p)],
           cpc'[p] = "more" => cpc[p] = "more", unread \subseteq unread',
           Ended(Me(p)) => Ended(Me(p))', kid'[Me(p)].st = "none" => kid[Me(p)].st = "none",
           Me(p) \in Serving' => Me(p) \in Serving /\ kid'[Me(p)] = kid[Me(p)]
    PROVE  InOrder(p)' /\ Progress(p)'
<1>1. \A m, n : Block(p, m, n)' = Block(p, m, n) /\ (Last(p, m, n) => Last(p, m, n)')
    BY DEF Block, Last
<1>2. InOrder(p)'
    BY <1>1 DEF InOrder
<1>3. Progress(p)'
    BY DEF Progress
<1>4. QED
    BY <1>2, <1>3

\* So is what was reported.
LEMMA SameReports ==
    ASSUME AnswerInv, done' = done, killed \subseteq killed', unread \subseteq unread',
           variant' = variant, Fresh' \subseteq Fresh, \A d \in done : asked'[d.id] = asked[d.id]
    PROVE  WholeFile' /\ \A d \in done' : d.id \in Id /\ d.id \notin Fresh'
<1>1. \A d \in done' : d.id \in Id /\ d.id \notin Fresh'
    BY DEF AnswerInv, Answers
<1>2. WholeFile'
    BY DEF AnswerInv, WholeFile, Data, Sysv
<1>3. QED
    BY <1>1, <1>2

LEMMA QuietAnswers ==
    ASSUME Control, AnswerInv, Quiet
    PROVE  AnswerInv'
<1>1. KidTypes /\ ClientTypes
    BY DEF Control, TypeOK
<1>2. UNCHANGED <<variant, cpc, runs, asked, got, box, killed, unread, done>> /\ Fresh' = Fresh
    BY <1>1, QuietFrame DEF Quiet, clients, history
<1>3. ASSUME NEW p \in Pid, Private(p)', cpc'[p] # "idle" PROVE InOrder(p)' /\ Progress(p)'
    <2>1. Me(p)' = Me(p) /\ Private(p) /\ cpc[p] # "idle" /\ Me(p) \in Id
        BY <1>1, <1>2, <1>3, QuietFrame DEF ClientTypes
    <2>2. InOrder(p) /\ Progress(p)
        BY <2>1 DEF AnswerInv, Answers
    <2>3. /\ Ended(Me(p)) => Ended(Me(p))'
          /\ kid'[Me(p)].st = "none" => kid[Me(p)].st = "none"
          /\ Me(p) \in Serving' => Me(p) \in Serving /\ kid'[Me(p)] = kid[Me(p)]
        BY <1>1, <2>1, QuietFrame
    <2>4. QED
        BY <1>2, <2>1, <2>2, <2>3, SameAnswer
<1>4. WholeFile' /\ \A d \in done' : d.id \in Id /\ d.id \notin Fresh'
    BY <1>2, SameReports
<1>5. QED
    BY <1>2, <1>3, <1>4 DEF AnswerInv, Answers

LEMMA ForkAnswers ==
    ASSUME Control, AnswerInv, SvFork
    PROVE  AnswerInv'
<1>1. KidTypes /\ ClientTypes
    BY DEF Control, TypeOK
<1>2. PICK k \in Id : k = cur
    BY ForkFrame
<1>3. /\ UNCHANGED <<variant, cpc, runs, asked, got, box, killed, unread, done>> /\ Fresh' = Fresh
      /\ kid[k].st = "none" /\ (UNCHANGED kid \/ kid' = [kid EXCEPT ![k] = NewKid(k)])
      /\ \A p : Me(p)' = Me(p) /\ Private(p)' = Private(p)
    BY <1>2, ForkFrame DEF clients, history
<1>4. /\ \A j \in Id : j # k => kid'[j] = kid[j]
      /\ \/ kid' = kid
         \/ kid'[k].pos = 0 /\ kid'[k].st \in {"open", "queue"}
    BY <1>1, <1>3 DEF KidTypes, NewKid
<1>5. ASSUME NEW p \in Pid, Private(p)', cpc'[p] # "idle" PROVE InOrder(p)' /\ Progress(p)'
    <2>1. Me(p)' = Me(p) /\ Private(p) /\ cpc[p] # "idle" /\ Me(p) \in Id
        BY <1>1, <1>3, <1>5 DEF ClientTypes
    <2>2. InOrder(p) /\ Progress(p)
        BY <2>1 DEF AnswerInv, Answers
    <2>3. CASE kid' = kid \/ Me(p) # k
        <3>1. kid'[Me(p)] = kid[Me(p)]
            BY <1>4, <2>1, <2>3
        <3>2. /\ Ended(Me(p)) => Ended(Me(p))'
              /\ Me(p) \in Serving' => Me(p) \in Serving
            BY <2>1, <3>1 DEF Ended, Serving
        <3>3. QED
            BY <1>3, <2>1, <2>2, <3>1, <3>2, SameAnswer
    <2>4. CASE Me(p) = k /\ kid'[k].pos = 0 /\ kid'[k].st \in {"open", "queue"}
        <3>1. got[p] = <<>> /\ box[Me(p)] = <<>> /\ cpc[p] # "more"
            BY <1>3, <2>2, <2>4 DEF Progress
        <3>2. InOrder(p)'
            BY <1>3, <2>1, <3>1 DEF InOrder
        <3>3. Progress(p)'
            BY <1>3, <2>1, <2>4, <3>1 DEF Progress
        <3>4. QED
            BY <3>2, <3>3
    <2>5. QED
        BY <1>4, <2>3, <2>4
<1>6. WholeFile' /\ \A d \in done' : d.id \in Id /\ d.id \notin Fresh'
    BY <1>3, SameReports
<1>7. QED
    BY <1>3, <1>5, <1>6 DEF AnswerInv, Answers

\* What a child sends to its own client follows what it has sent before.
LEMMA OwnAnswer ==
    ASSUME Control, AnswerInv, NEW p \in Pid, Private(p), cpc[p] # "idle", KidStep(Me(p))
    PROVE  InOrder(p)' /\ Progress(p)'
<1>1. PICK i \in Id : i = Me(p)
    BY DEF Control, TypeOK, ClientTypes
<1>2. i[1] = p /\ Me(p)' = i /\ ClientTypes /\ KidTypes /\ BoxTypes
    <2>1. ClientTypes /\ KidTypes /\ BoxTypes
        BY DEF Control, TypeOK
    <2>2. runs' = runs
        BY <1>1, KidFrame DEF kidUnchanged, clients
    <2>3. QED
        BY <1>1, <2>1, <2>2 DEF Me
<1>3. /\ UNCHANGED <<variant, cpc, asked, got, linked>> /\ i \in Serving
      /\ KidOnly(i) /\ KidMessage(i)
    BY <1>1, <1>2, KidFrame DEF kidUnchanged, clients
<1>4. unread \subseteq unread'
    BY DEF KidStep, KidOpenQueue, KidFailure, KidRead, KidSend, KidEnd
<1>5. InOrder(p) /\ Progress(p)
    BY DEF AnswerInv, Answers
<1>6. kid[i].box = i /\ ~Removed(i) /\ ~Ended(i)
    BY <1>1, <1>2, <1>3 DEF Control, Boxes, Removed, Ended, Serving
<1>7. /\ box[i] \in Seq(Messages) /\ got[p] \in Seq(Messages)
      /\ kid[i].pos = Len(got[p]) + Len(box[i])
      /\ Blocks[asked[i]] \in Int
    BY <1>1, <1>2, <1>3, <1>5, FileServerAssumption DEF BoxTypes, ClientTypes, Progress
<1>8. \A m, n : Block(p, m, n)' = Block(p, m, n) /\ (Last(p, m, n) => FALSE)
    BY <1>1, <1>2, <1>3, <1>6 DEF Block, Last
<1>9. \A n \in DOMAIN box[i] : Block(p, box[i][n], Len(got[p]) + n)
    BY <1>1, <1>5, <1>8 DEF InOrder
<1>10. \A n \in DOMAIN got[p] : Block(p, got[p][n], n)
    BY <1>5 DEF InOrder
<1>11. cpc[p] = "more" => got[p] # <<>>
    BY <1>5 DEF Progress
<1>12. kid'[i].st # "none" /\ (Ended(i)' => i \notin Serving')
    BY <1>3 DEF KidOnly, Ended, Serving
<1>13. ASSUME box' = box PROVE InOrder(p)'
    BY <1>2, <1>3, <1>8, <1>9, <1>10, <1>13 DEF InOrder
<1>14. ASSUME NEW m \in Messages, Put(kid[i].box, m), NEW k, k = Len(got[p]) + Len(box[i]),
              Block(p, m, k + 1) \/ Last(p, m, k)'
       PROVE  InOrder(p)' /\ Len(box'[i]) = Len(box[i]) + 1
    <2>1. box'[i] = Append(box[i], m)
        BY <1>2, <1>6, <1>14 DEF Put, BoxTypes
    <2>2. /\ Len(box'[i]) = Len(box[i]) + 1 /\ Len(box[i]) \in Nat /\ Len(got[p]) \in Nat
          /\ DOMAIN box'[i] = DOMAIN box[i] \cup {Len(box[i]) + 1}
          /\ box'[i][Len(box[i]) + 1] = m /\ \A n \in DOMAIN box[i] : box'[i][n] = box[i][n]
        BY <1>7, <2>1
    <2>3. ASSUME NEW n \in DOMAIN box'[i]
          PROVE  \/ Block(p, box[i][n], Len(got[p]) + n)'
                 \/ n = Len(box'[i]) /\ Last(p, box[i][n], Len(got[p]) + n - 1)'
        <3>1. CASE n \in DOMAIN box[i]
            BY <1>3, <1>8, <1>9, <2>2, <3>1
        <3>2. CASE n = Len(box[i]) + 1
            <4>1. got'[p] = got[p] /\ Len(box[i]) \in Nat /\ Len(got[p]) \in Nat
                BY <1>3, <2>2
            <4>2. \A a, b \in Nat : a + (b + 1) = (a + b) + 1 /\ a + (b + 1) - 1 = a + b
                OBVIOUS
            <4>3. Len(got[p]) + n = k + 1 /\ Len(got[p]) + n - 1 = k
                BY <1>14, <3>2, <4>1, <4>2
            <4>4. /\ box'[i][n] = m /\ Len(got'[p]) + n = k + 1
                  /\ Len(got'[p]) + n - 1 = k /\ n = Len(box'[i])
                BY <2>2, <3>2, <4>1, <4>3
            <4>5. CASE Block(p, m, k + 1)
                BY <1>8, <4>4, <4>5
            <4>6. CASE Last(p, m, k)'
                BY <4>4, <4>6
            <4>7. QED
                BY <1>14, <4>5, <4>6
        <3>3. QED
            BY <2>2, <3>1, <3>2
    <2>4. QED
        BY <1>2, <1>3, <1>8, <1>10, <2>2, <2>3 DEF InOrder
<1>15. ASSUME Ended(i)' PROVE Progress(p)'
    BY <1>2, <1>3, <1>11, <1>12, <1>15 DEF Progress
<1>16. ASSUME kid'[i].pos = Len(got[p]) + Len(box'[i]),
              kid'[i].st = "end" => kid'[i].pos = Blocks[asked[i]] \/ i \in unread'
       PROVE  Progress(p)'
    BY <1>2, <1>3, <1>11, <1>12, <1>16 DEF Progress
<1>17. ASSUME KidEnds(i) PROVE Ended(i)'
    BY <1>2, <1>17 DEF KidEnds, KidTypes, Ended
<1>18. ASSUME NEW l, kid' = [kid EXCEPT ![i].st = l] PROVE kid'[i].pos = kid[i].pos /\ kid'[i].st = l
    BY <1>2, <1>18 DEF KidTypes
<1>19. CASE KidOpenQueue(i)
    <2>1. InOrder(p)' /\ box' = box
        BY <1>13, <1>19 DEF KidOpenQueue
    <2>2. CASE KidEnds(i)
        BY <1>15, <1>17, <2>1, <2>2
    <2>3. ASSUME NEW b, kid' = [kid EXCEPT ![i].box = b, ![i].st = "open"]
          PROVE  Progress(p)'
        <3>1. kid'[i].pos = kid[i].pos /\ kid'[i].st = "open"
            BY <1>2, <2>3 DEF KidTypes
        <3>2. QED
            BY <1>7, <1>16, <2>1, <3>1
    <2>4. QED
        BY <1>19, <2>1, <2>2, <2>3 DEF KidOpenQueue
<1>20. CASE KidFailure(i)
    <2>1. Put(kid[i].box, Failure) /\ KidEnds(i) /\ Blocks[asked[i]] = -1
        BY <1>6, <1>20 DEF KidFailure
    <2>2. Ended(i)'
        BY <1>17, <2>1
    <2>3. PICK k : k = Len(got[p]) + Len(box[i])
        OBVIOUS
    <2>4. Last(p, Failure, k)'
        BY <1>2, <1>3, <2>1, <2>2 DEF Last, Failure
    <2>5. Failure \in Messages
        BY DEF Messages
    <2>6. QED
        BY <1>14, <1>15, <2>1, <2>2, <2>3, <2>4, <2>5
<1>21. CASE KidRead(i)
    <2>1. CASE KidGoto(i, "send") /\ box' = box
        BY <1>7, <1>13, <1>16, <1>18, <2>1 DEF KidGoto
    <2>2. CASE KidGoto(i, "end") /\ box' = box /\ (kid[i].pos = Blocks[asked[i]] \/ i \in unread')
        BY <1>7, <1>13, <1>16, <1>18, <2>2 DEF KidGoto
    <2>3. QED
        BY <1>21, <2>1, <2>2 DEF KidRead
<1>22. CASE KidSend(i)
    <2>1. CASE Put(kid[i].box, Data(asked[i], kid[i].pos + 1)) /\ KidSent(i)
        <3> DEFINE m == Data(asked[i], kid[i].pos + 1)
        <3>1. kid'[i].pos = kid[i].pos + 1 /\ kid'[i].st = "open" /\ kid[i].pos \in Nat
            BY <1>2, <2>1 DEF KidTypes, KidSent
        <3>2. m \in Messages
            BY <1>2, <3>1 DEF ClientTypes, Messages, Data
        <3>3. Len(box[i]) \in Nat /\ Len(got[p]) \in Nat /\ kid[i].pos = Len(got[p]) + Len(box[i])
            BY <1>7
        <3>4. kid[i].pos < Blocks[asked[i]] /\ Blocks[asked[i]] \in Int
            BY <1>2, <1>7, <1>22 DEF KidTypes, KidSend
        <3>5. kid[i].pos + 1 = Len(got[p]) + Len(box[i]) + 1
            BY <3>3
        <3>6. kid[i].pos + 1 <= Blocks[asked[i]]
            BY <3>1, <3>4
        <3>7. PICK k : k = Len(got[p]) + Len(box[i])
            OBVIOUS
        <3>8. Block(p, m, k + 1)
            BY <1>1, <3>5, <3>7, <3>6 DEF Block
        <3> HIDE DEF m
        <3>9. Put(kid[i].box, m)
            BY <2>1 DEF m
        <3>10. InOrder(p)' /\ Len(box'[i]) = Len(box[i]) + 1
            BY <1>14, <3>2, <3>8, <3>9, <3>7
        <3>11. \A a, b \in Nat : a + (b + 1) = (a + b) + 1
            OBVIOUS
        <3>12. kid'[i].pos = Len(got[p]) + Len(box'[i])
            BY <3>1, <3>3, <3>10, <3>11
        <3>13. QED
            BY <1>16, <3>1, <3>10, <3>12
    <2>2. QED
        BY <1>6, <1>22, <2>1 DEF KidSend
<1>23. CASE KidEnd(i)
    <2>1. Put(kid[i].box, End) /\ KidEnds(i) /\ kid[i].st = "end"
        BY <1>6, <1>23 DEF KidEnd
    <2>2. Ended(i)'
        BY <1>17, <2>1
    <2>3. kid[i].pos = Blocks[asked[i]] \/ i \in unread
        BY <1>1, <1>3, <1>5, <2>1 DEF Progress
    <2>4. PICK k : k = Len(got[p]) + Len(box[i])
        OBVIOUS
    <2>5. Last(p, End, k)'
        BY <1>2, <1>3, <1>4, <1>7, <2>2, <2>3, <2>4 DEF Last, End, Failure
    <2>6. End \in Messages
        BY DEF Messages
    <2>7. QED
        BY <1>14, <1>15, <2>1, <2>2, <2>5, <2>6, <2>4
<1>24. QED
    BY <1>1, <1>19, <1>20, <1>21, <1>22, <1>23 DEF KidStep

LEMMA KidAnswers ==
    ASSUME Control, AnswerInv, NEW i \in Id, KidStep(i)
    PROVE  AnswerInv'
<1>1. KidTypes /\ ClientTypes /\ BoxTypes /\ kid[i].box \in Id
    BY DEF Control, TypeOK, KidTypes
<1>2. /\ UNCHANGED <<variant, cpc, runs, asked, got, linked, killed, done>> /\ i \in Serving
      /\ KidOnly(i) /\ KidMessage(i)
    BY KidFrame DEF kidUnchanged, clients
<1>3. unread \subseteq unread'
    BY DEF KidStep, KidOpenQueue, KidFailure, KidRead, KidSend, KidEnd
<1>4. Fresh' = Fresh /\ \A p : Me(p)' = Me(p) /\ Private(p)' = Private(p)
    BY <1>2 DEF Fresh, Me, Private, Sysv
<1>5. \A j \in Id : j # kid[i].box => box'[j] = box[j]
    BY <1>1, <1>2, PutFits DEF KidMessage
<1>6. ASSUME NEW p \in Pid, Private(p)', cpc'[p] # "idle" PROVE InOrder(p)' /\ Progress(p)'
    <2>1. Me(p)' = Me(p) /\ Private(p) /\ cpc[p] # "idle" /\ Me(p) \in Id /\ Me(p)[1] = p
        BY <1>1, <1>2, <1>4, <1>6 DEF ClientTypes, Me
    <2>2. InOrder(p) /\ Progress(p)
        BY <2>1 DEF AnswerInv, Answers
    <2>3. CASE i = Me(p)
        BY <2>1, <2>3, OwnAnswer
    <2>4. CASE i # Me(p)
        <3>1. kid[i].box # Me(p)
            BY <1>2, <2>1, <2>4 DEF Control, Boxes
        <3>2. box'[Me(p)] = box[Me(p)] /\ kid'[Me(p)] = kid[Me(p)]
            BY <1>2, <1>5, <2>1, <2>4, <3>1 DEF KidOnly
        <3>3. /\ Ended(Me(p)) => Ended(Me(p))'
              /\ Me(p) \in Serving' => Me(p) \in Serving
            BY <2>1, <3>2 DEF Ended, Serving
        <3>4. QED
            BY <1>2, <1>3, <2>1, <2>2, <3>2, <3>3, SameAnswer
    <2>5. QED
        BY <2>3, <2>4
<1>7. WholeFile' /\ \A d \in done' : d.id \in Id /\ d.id \notin Fresh'
    BY <1>2, <1>3, <1>4, SameReports
<1>8. QED
    BY <1>2, <1>6, <1>7 DEF AnswerInv, Answers

LEMMA StartAnswers ==
    ASSUME Control, AnswerInv, NEW p \in Pid, ClStart(p)
    PROVE  AnswerInv'
<1>1. KidTypes /\ ClientTypes /\ BoxTypes /\ \A q \in Pid : Me(q)[1] = q
    BY DEF Control, TypeOK, Me
<1>2. PICK new \in Id : new = Me(p)'
    BY StartFrame
<1>3. /\ UNCHANGED <<variant, kid, got, box, killed, unread, done>>
      /\ cpc[p] = "idle" /\ Me(p)' = new /\ new \in Fresh /\ new[1] = p
      /\ \/ asked' = asked
         \/ \E f \in File : asked' = [asked EXCEPT ![new] = f]
      /\ \A q \in Pid : q # p => Me(q)' = Me(q) /\ cpc'[q] = cpc[q]
      /\ cpc'[p] \in {"idle", "send"} /\ Fresh' \subseteq Fresh
    BY <1>2, StartFrame DEF history
<1>4. \A j \in Id : j # new => asked'[j] = asked[j]
    BY <1>1, <1>3 DEF ClientTypes
<1>5. got[p] = <<>>
    BY <1>3 DEF AnswerInv, Answers
<1>6. ASSUME NEW q \in Pid, Private(q)', cpc'[q] # "idle" PROVE InOrder(q)' /\ Progress(q)'
    <2>1. Private(q)
        BY <1>3, <1>6 DEF Private, Sysv
    <2>2. CASE q = p
        <3>1. box[new] = <<>> /\ kid[new].st = "none"
            BY <1>3, <2>1, <2>2 DEF Control, Finals, Requests
        <3>2. InOrder(q)'
            BY <1>3, <1>5, <2>2, <3>1 DEF InOrder
        <3>3. Progress(q)'
            BY <1>3, <1>5, <2>2, <3>1 DEF Progress, Serving
        <3>4. QED
            BY <3>2, <3>3
    <2>3. CASE q # p
        <3>1. cpc[q] # "idle" /\ Me(q) \in Id /\ Me(q)' = Me(q) /\ Me(q) # new
            BY <1>1, <1>3, <1>6, <2>3 DEF ClientTypes
        <3>2. InOrder(q) /\ Progress(q)
            BY <2>1, <3>1 DEF AnswerInv, Answers
        <3>3. /\ Ended(Me(q)) => Ended(Me(q))'
              /\ Me(q) \in Serving' => Me(q) \in Serving
            BY <1>3, <3>1 DEF Ended, Serving
        <3>4. QED
            BY <1>3, <1>4, <2>3, <3>1, <3>2, <3>3, SameAnswer
    <2>4. QED
        BY <2>2, <2>3
<1>7. \A d \in done : asked'[d.id] = asked[d.id]
    BY <1>3, <1>4 DEF AnswerInv, Answers
<1>8. WholeFile' /\ \A d \in done' : d.id \in Id /\ d.id \notin Fresh'
    BY <1>3, <1>7, SameReports
<1>9. \A q \in Pid : cpc'[q] \in {"idle", "send"} => got'[q] = <<>>
    BY <1>3, <1>5 DEF AnswerInv, Answers
<1>10. QED
    BY <1>6, <1>8, <1>9 DEF AnswerInv, Answers

LEMMA CleanupAnswers ==
    ASSUME Control, AnswerInv, NEW b \in Id, Cleanup(b)
    PROVE  AnswerInv'
<1>1. KidTypes /\ ClientTypes /\ BoxTypes
    BY DEF Control, TypeOK
<1>2. /\ UNCHANGED <<variant, kid, cpc, runs, asked, got, killed, unread, done>>
      /\ \A q \in Pid : cpc[q] # "idle" => Me(q) # b
      /\ \A j \in Id : j # b => box'[j] = box[j]
    BY <1>1 DEF Cleanup, Me, clients, history, BoxTypes
<1>3. Fresh' = Fresh /\ \A p : Me(p)' = Me(p) /\ Private(p)' = Private(p)
    BY <1>2 DEF Fresh, Me, Private, Sysv
<1>4. ASSUME NEW p \in Pid, Private(p)', cpc'[p] # "idle" PROVE InOrder(p)' /\ Progress(p)'
    <2>1. Me(p)' = Me(p) /\ Private(p) /\ cpc[p] # "idle" /\ Me(p) \in Id
        BY <1>1, <1>2, <1>3, <1>4 DEF ClientTypes
    <2>2. InOrder(p) /\ Progress(p) /\ box'[Me(p)] = box[Me(p)]
        BY <1>2, <2>1 DEF AnswerInv, Answers
    <2>3. /\ Ended(Me(p)) => Ended(Me(p))'
          /\ Me(p) \in Serving' => Me(p) \in Serving
        BY <1>2, <2>1 DEF Ended, Serving
    <2>4. QED
        BY <1>2, <2>1, <2>2, <2>3, SameAnswer
<1>5. WholeFile' /\ \A d \in done' : d.id \in Id /\ d.id \notin Fresh'
    BY <1>2, <1>3, SameReports
<1>6. QED
    BY <1>2, <1>4, <1>5 DEF AnswerInv, Answers

\* A step of one client leaves the answers of the others.
LEMMA OtherAnswers ==
    ASSUME Control, AnswerInv, NEW p \in Pid, NEW q \in Pid, q # p, Private(q)', cpc'[q] # "idle",
           UNCHANGED <<variant, kid, runs, asked, unread>>, killed \subseteq killed',
           cpc'[q] = cpc[q], got'[q] = got[q], \A j \in Id : j # Me(p) => box'[j] = box[j]
    PROVE  InOrder(q)' /\ Progress(q)'
<1>1. Me(q)' = Me(q) /\ Private(q) /\ Me(q) \in Id /\ Me(q) # Me(p)
    BY DEF Control, TypeOK, ClientTypes, Private, Sysv, Me
<1>2. InOrder(q) /\ Progress(q) /\ box'[Me(q)] = box[Me(q)]
    BY <1>1 DEF AnswerInv, Answers
<1>3. /\ Ended(Me(q)) => Ended(Me(q))'
      /\ Me(q) \in Serving' => Me(q) \in Serving
    BY <1>1 DEF Ended, Serving
<1>4. QED
    BY <1>1, <1>2, <1>3, SameAnswer

\* A block that is received is the next of those the client waits for.
LEMMA BlockReceived ==
    ASSUME Control, AnswerInv, NEW p \in Pid, ClReceive(p), Private(p),
           NEW m, m = Head(box[Me(p)]), m.type = "DATA",
           got' = [got EXCEPT ![p] = Append(@, m)],
           UNCHANGED <<runs, kid, asked, unread>>
    PROVE  InOrder(p)' /\ Progress(p)'
<1>1. PICK i \in Id : i = Me(p)
    BY DEF Control, TypeOK, ClientTypes, ClReceive, Waiting
<1>2. /\ Me(p)' = i /\ cpc[p] # "idle" /\ box[i] # <<>>
      /\ box[i] \in Seq(Messages) /\ got[p] \in Seq(Messages) /\ m \in Messages
      /\ box'[i] = Tail(box[i]) /\ got'[p] = Append(got[p], m)
    <2>1. box \in [Id -> Seq(Messages)] /\ got \in [Pid -> Seq(Messages)]
        BY DEF Control, TypeOK, BoxTypes, ClientTypes
    <2>2. box[i] # <<>> /\ cpc[p] # "idle" /\ box' = [box EXCEPT ![i] = Tail(box[i])]
        BY <1>1 DEF ClReceive, Waiting
    <2>3. Head(box[i]) \in Messages
        BY <2>1, <2>2
    <2>4. QED
        BY <1>1, <2>1, <2>2, <2>3 DEF Me
<1>3. InOrder(p) /\ Progress(p)
    BY <1>2 DEF AnswerInv, Answers
<1>4. /\ Len(box[i]) \in Nat /\ Len(box[i]) >= 1 /\ Len(got[p]) \in Nat
      /\ Len(box'[i]) = Len(box[i]) - 1 /\ Len(got'[p]) = Len(got[p]) + 1
      /\ DOMAIN got'[p] = DOMAIN got[p] \cup {Len(got[p]) + 1}
      /\ got'[p][Len(got[p]) + 1] = m /\ \A n \in DOMAIN got[p] : got'[p][n] = got[p][n]
      /\ 1 \in DOMAIN box[i] /\ box[i][1] = m
      /\ \A n \in DOMAIN box'[i] : n \in Nat /\ n + 1 \in DOMAIN box[i] /\ box'[i][n] = box[i][n + 1]
    BY <1>1, <1>2
<1>5. \A x, n : Block(p, x, n)' = Block(p, x, n) /\ (Last(p, x, n) => Last(p, x, n)')
    BY <1>1, <1>2 DEF Block, Last, Ended
<1>6. PICK g \in Nat : g = Len(got[p])
    BY <1>4
<1>7. /\ \A n \in DOMAIN got[p] : Block(p, got[p][n], n)
      /\ \A n \in DOMAIN box[i] : \/ Block(p, box[i][n], g + n)
                                  \/ n = Len(box[i]) /\ Last(p, box[i][n], g + n - 1)
    BY <1>1, <1>3, <1>6 DEF InOrder
<1>8. Block(p, m, g + 1)
    BY <1>4, <1>7 DEF Last
<1>9. ASSUME NEW n \in DOMAIN got'[p] PROVE Block(p, got[p][n], n)'
    <2>1. CASE n \in DOMAIN got[p]
        BY <1>4, <1>5, <1>7, <2>1
    <2>2. CASE n = g + 1
        BY <1>4, <1>5, <1>6, <1>8, <2>2
    <2>3. QED
        BY <1>4, <1>6, <2>1, <2>2
<1>10. ASSUME NEW n \in DOMAIN box'[i]
       PROVE  \/ Block(p, box[i][n], Len(got[p]) + n)'
              \/ n = Len(box'[i]) /\ Last(p, box[i][n], Len(got[p]) + n - 1)'
    <2>1. n \in Nat /\ n + 1 \in DOMAIN box[i] /\ box'[i][n] = box[i][n + 1]
        BY <1>4
    <2>2. g + (n + 1) = Len(got'[p]) + n /\ g + (n + 1) - 1 = Len(got'[p]) + n - 1
        <3>1. \A a, b \in Nat : a + (b + 1) = (a + 1) + b /\ a + (b + 1) - 1 = (a + 1) + b - 1
            OBVIOUS
        <3>2. Len(got'[p]) = g + 1
            BY <1>4, <1>6
        <3>3. QED
            BY <1>6, <2>1, <3>1, <3>2
    <2>3. n + 1 = Len(box[i]) => n = Len(box'[i])
        BY <1>4, <2>1
    <2>4. QED
        BY <1>5, <1>7, <2>1, <2>2, <2>3
<1>11. InOrder(p)'
    BY <1>2, <1>9, <1>10 DEF InOrder
<1>12. Progress(p)'
    <2>1. got'[p] # <<>>
        BY <1>2
    <2>2. kid[i].st # "none"
        BY <1>1, <1>2, <1>3 DEF Progress
    <2>3. i \in Serving => kid[i].pos = Len(got'[p]) + Len(box'[i])
        <3>1. \A a, b \in Nat : b >= 1 => a + b = (a + 1) + (b - 1)
            OBVIOUS
        <3>2. i \in Serving => kid[i].pos = Len(got[p]) + Len(box[i])
            BY <1>1, <1>3 DEF Progress
        <3>3. QED
            BY <1>4, <3>1, <3>2
    <2>4. i \in Serving' => i \in Serving
        BY DEF Serving
    <2>5. QED
        BY <1>1, <1>2, <1>3, <2>1, <2>2, <2>3, <2>4 DEF Progress
<1>13. QED
    BY <1>11, <1>12

\* What a client reports after the message that is not a block.
LEMMA EndReceived ==
    ASSUME Control, AnswerInv, NEW p \in Pid, Waiting(p), box[Me(p)] # <<>>, Private(p),
           Head(box[Me(p)]).type # "DATA",
           ~(Head(box[Me(p)]).type = "FAILURE" /\ cpc[p] = "first")
    PROVE  /\ \A n \in DOMAIN got[p] : got[p][n] = Data(asked[Me(p)], n)
           /\ Len(got[p]) = Blocks[asked[Me(p)]] \/ Me(p) \in unread
<1>1. PICK i \in Id : i = Me(p)
    BY LastRead
<1>2. PICK m \in Messages : m = Head(box[i]) /\ m = box[i][1] /\ m.type # "DATA"
    BY <1>1, LastRead
<1>3. /\ 1 \in DOMAIN box[i] /\ got[p] \in Seq(Messages) /\ Len(got[p]) \in Nat
      /\ InOrder(p) /\ Progress(p)
    <2>1. got[p] \in Seq(Messages)
        BY DEF Control, TypeOK, ClientTypes
    <2>2. cpc[p] # "idle"
        BY DEF Waiting
    <2>3. QED
        BY <1>1, <2>1, <2>2, LastRead DEF AnswerInv, Answers
<1>4. \A n \in DOMAIN got[p] : got[p][n] = Data(asked[i], n) /\ n <= Blocks[asked[i]]
    BY <1>1, <1>3 DEF InOrder, Block
<1>5. IF m = Failure THEN Blocks[asked[i]] = -1
      ELSE Len(got[p]) = Blocks[asked[i]] \/ i \in unread
    <2>1. \/ Block(p, m, Len(got[p]) + 1)
          \/ Last(p, m, Len(got[p]) + 1 - 1)
        BY <1>1, <1>2, <1>3 DEF InOrder
    <2>2. ~Block(p, m, Len(got[p]) + 1)
        BY <1>2 DEF Block, Data
    <2>3. Len(got[p]) + 1 - 1 = Len(got[p])
        BY <1>3
    <2>4. QED
        BY <1>1, <2>1, <2>2, <2>3 DEF Last
<1>6. m # Failure
    <2>1. SUFFICES ASSUME m = Failure PROVE FALSE
        OBVIOUS
    <2>2. cpc[p] = "more"
        BY <1>1, <1>2, <2>1 DEF Failure, Waiting
    <2>3. 1 \in DOMAIN got[p]
        BY <1>3, <2>2 DEF Progress
    <2>4. QED
        BY <1>4, <1>5, <2>1, <2>3
<1>7. QED
    BY <1>1, <1>4, <1>5, <1>6

\* A client that ends, or is killed, has reported what WholeFile says or nothing.
LEMMA LeaveAnswers ==
    ASSUME Control, AnswerInv, NEW p \in Pid, cpc[p] # "idle",
           UNCHANGED <<variant, kid, runs, asked, unread>>, killed \subseteq killed',
           cpc' = [cpc EXCEPT ![p] = "idle"], got' = [got EXCEPT ![p] = <<>>],
           \A j \in Id : j # Me(p) => box'[j] = box[j],
           \/ done' = done
           \/ /\ done' = done \cup {[id |-> Me(p), got |-> got[p]]} /\ Waiting(p)
              /\ Private(p) =>
                    /\ \A n \in DOMAIN got[p] : got[p][n] = Data(asked[Me(p)], n)
                    /\ Len(got[p]) = Blocks[asked[Me(p)]] \/ Me(p) \in unread
    PROVE  AnswerInv'
<1>1. ClientTypes /\ Me(p) \in Id /\ Me(p)[1] = p /\ Me(p)[2] = runs[p] /\ runs[p] \in Nat
    BY DEF Control, TypeOK, ClientTypes, Me
<1>2. /\ cpc'[p] = "idle" /\ got'[p] = <<>>
      /\ \A q \in Pid : q # p => cpc'[q] = cpc[q] /\ got'[q] = got[q]
    BY <1>1 DEF ClientTypes
<1>3. ASSUME NEW q \in Pid, Private(q)', cpc'[q] # "idle" PROVE InOrder(q)' /\ Progress(q)'
    BY <1>2, <1>3, OtherAnswers
<1>4. \A q \in Pid : cpc'[q] \in {"idle", "send"} => got'[q] = <<>>
    BY <1>2 DEF AnswerInv, Answers
<1>5. Fresh' \subseteq Fresh /\ (Waiting(p) => Me(p) \notin Fresh)
    <2>1. \A q : Me(q)' = Me(q)
        BY DEF Me
    <2>2. Fresh' \subseteq Fresh
        BY <1>2, <2>1, Ids DEF Fresh
    <2>3. Waiting(p) => Me(p) \notin Fresh
        BY <1>1 DEF Fresh, Waiting
    <2>4. QED
        BY <2>2, <2>3
<1>6. \A d \in done' : d.id \in Id /\ d.id \notin Fresh'
    BY <1>1, <1>5 DEF AnswerInv, Answers
<1>7. WholeFile'
    <2> SUFFICES ASSUME NEW d \in done'
                 PROVE  \/ ~Sysv /\ d.id[1] \in killed'
                        \/ /\ \A n \in DOMAIN d.got : d.got[n] = Data(asked[d.id], n)
                           /\ Len(d.got) = Blocks[asked[d.id]] \/ d.id \in unread
        BY DEF WholeFile, Sysv, Data
    <2>1. CASE d \in done
        BY <2>1 DEF AnswerInv, WholeFile
    <2>2. CASE d \notin done
        <3>1. d.id = Me(p) /\ d.got = got[p]
            BY <2>2
        <3>2. CASE Private(p)
            BY <2>2, <3>1, <3>2
        <3>3. CASE ~Private(p)
            BY <1>1, <3>1, <3>3 DEF Private
        <3>4. QED
            BY <3>2, <3>3
    <2>3. QED
        BY <2>1, <2>2
<1>8. QED
    BY <1>3, <1>4, <1>6, <1>7 DEF AnswerInv, Answers

LEMMA ClStepAnswers ==
    ASSUME Control, AnswerInv, NEW p \in Pid, ClStep(p) \/ ClKilled(p)
    PROVE  AnswerInv'
<1>1. ClientTypes /\ BoxTypes
    BY DEF Control, TypeOK
<1>2. CASE ClKilled(p)
    BY <1>2, LeaveAnswers DEF ClKilled, Goto
<1>3. CASE ClSend(p)
    <2>1. CASE sid[p] # skey /\ Sysv /\ ClExit(p) /\ UNCHANGED <<box, done>>
        BY <1>3, <2>1, LeaveAnswers DEF ClSend, ClExit, Goto
    <2>2. CASE /\ UNCHANGED <<variant, kid, runs, asked, got, box, history>>
               /\ cpc' = [cpc EXCEPT ![p] = "first"]
        <3>1. cpc[p] = "send" /\ UNCHANGED <<killed, unread, done>>
            BY <1>3, <2>2 DEF ClSend, history
        <3>2. cpc'[p] = "first" /\ \A q \in Pid : q # p => cpc'[q] = cpc[q]
            BY <1>1, <2>2 DEF ClientTypes
        <3>3. \A q : Me(q)' = Me(q)
            BY <2>2 DEF Me
        <3>4. Fresh' \subseteq Fresh
            BY <2>2, <3>2, <3>3, Ids DEF Fresh
        <3>5. ASSUME NEW q \in Pid, Private(q)', cpc'[q] # "idle" PROVE InOrder(q)' /\ Progress(q)'
            <4>1. Private(q) /\ cpc[q] # "idle" /\ (cpc'[q] = "more" => cpc[q] = "more")
                BY <2>2, <3>1, <3>2, <3>5 DEF Private, Sysv
            <4>2. InOrder(q) /\ Progress(q)
                BY <4>1 DEF AnswerInv, Answers
            <4>3. /\ Ended(Me(q)) => Ended(Me(q))'
                  /\ Me(q) \in Serving' => Me(q) \in Serving
                BY <2>2, <3>3 DEF Ended, Serving
            <4>4. QED
                BY <2>2, <3>1, <3>3, <4>1, <4>2, <4>3, SameAnswer
        <3>6. WholeFile' /\ \A d \in done' : d.id \in Id /\ d.id \notin Fresh'
            BY <2>2, <3>1, <3>4, SameReports
        <3>7. QED
            BY <2>2, <3>2, <3>5, <3>6 DEF AnswerInv, Answers
    <2>3. QED
        BY <1>3, <2>1, <2>2 DEF ClSend, Goto, server
<1>4. CASE ClReceive(p)
    <2>1. PICK m : m = Head(box[Me(p)])
        OBVIOUS
    <2>2. Waiting(p) /\ box[Me(p)] # <<>> /\ cpc[p] # "idle" /\ Me(p) \in Id
        BY <1>1, <1>4 DEF ClReceive, Waiting, ClientTypes
    <2>3. \A j \in Id : j # Me(p) => box'[j] = box[j]
        BY <1>1, <1>4 DEF ClReceive, BoxTypes
    <2>4. CASE /\ m.type = "DATA" /\ Goto(p, "more")
               /\ got' = [got EXCEPT ![p] = Append(@, m)]
               /\ UNCHANGED <<variant, server, skey, sq, file, kid, runs, sid, asked, linked, history>>
        <3>1. /\ cpc'[p] = "more" /\ UNCHANGED <<killed, unread, done>>
              /\ \A q \in Pid : q # p => cpc'[q] = cpc[q] /\ got'[q] = got[q]
            BY <1>1, <2>4 DEF Goto, ClientTypes, history
        <3>2. Fresh' \subseteq Fresh
            <4>1. \A q : Me(q)' = Me(q)
                BY <2>4 DEF Me
            <4>2. QED
                BY <2>4, <3>1, <4>1, Ids DEF Fresh
        <3>3. ASSUME NEW q \in Pid, Private(q)', cpc'[q] # "idle" PROVE InOrder(q)' /\ Progress(q)'
            <4>1. CASE q = p
                <5>1. Private(p)
                    BY <2>4, <3>1, <3>3, <4>1 DEF Private, Sysv
                <5>2. QED
                    BY <1>4, <2>1, <2>4, <3>1, <4>1, <5>1, BlockReceived
            <4>2. CASE q # p
                BY <2>3, <2>4, <3>1, <3>3, <4>2, OtherAnswers
            <4>3. QED
                BY <4>1, <4>2
        <3>4. WholeFile' /\ \A d \in done' : d.id \in Id /\ d.id \notin Fresh'
            BY <2>4, <3>1, <3>2, SameReports
        <3>5. \A q \in Pid : cpc'[q] \in {"idle", "send"} => got'[q] = <<>>
            BY <3>1 DEF AnswerInv, Answers
        <3>6. QED
            BY <3>3, <3>4, <3>5 DEF AnswerInv, Answers
    <2>5. CASE /\ m.type # "DATA" /\ ClExit(p)
               /\ done' = IF m.type = "FAILURE" /\ cpc[p] = "first" THEN done
                          ELSE done \cup {[id |-> Me(p), got |-> got[p]]}
        <3>1. CASE m.type = "FAILURE" /\ cpc[p] = "first"
            <4>1. done' = done
                BY <2>5, <3>1
            <4>2. QED
                BY <2>2, <2>3, <2>5, <4>1, LeaveAnswers DEF ClExit, Goto
        <3>2. CASE ~(m.type = "FAILURE" /\ cpc[p] = "first")
            <4>1. Private(p) =>
                    /\ \A n \in DOMAIN got[p] : got[p][n] = Data(asked[Me(p)], n)
                    /\ Len(got[p]) = Blocks[asked[Me(p)]] \/ Me(p) \in unread
                BY <2>1, <2>2, <2>5, <3>2, EndReceived
            <4>2. done' = done \cup {[id |-> Me(p), got |-> got[p]]}
                BY <2>5, <3>2
            <4>3. QED
                BY <2>2, <2>3, <2>5, <4>1, <4>2, LeaveAnswers DEF ClExit, Goto
        <3>3. QED
            BY <3>1, <3>2
    <2>6. QED
        BY <1>4, <2>1, <2>4, <2>5 DEF ClReceive
<1>5. QED
    BY <1>2, <1>3, <1>4 DEF ClStep

\* A client that reports a file has the whole of the file it asked for, in order:
\* less only after a read error of the server, and another only with a POSIX queue
\* and a killed client's pid (svmsg_file_server.c:30, 52_3/svmsg_file_server.c:26).
THEOREM WholeFilesOnly == Spec => []WholeFile
<1>1. Init => Control /\ AnswerInv
    BY InitControl DEF Init, AnswerInv, Answers, WholeFile
<1>2. Control /\ AnswerInv /\ [Next]_vars => Control' /\ AnswerInv'
    <2> SUFFICES ASSUME Control, AnswerInv, [Next]_vars PROVE AnswerInv'
        BY ControlInductive
    <2>1. CASE \/ SvCreate \/ SvIdFile \/ SvIdWrite \/ SvReceive \/ SvRmid \/ SvUnlink \/ SvKilled
               \/ SvSignal \/ SvReap \/ RemoveQueue \/ RemoveIdFile
        BY <2>1, ServerQuiet, QuietAnswers
    <2>2. CASE SvFork
        BY <2>2, ForkAnswers
    <2>3. ASSUME NEW i \in Id, KidStep(i) PROVE AnswerInv'
        BY <2>3, KidAnswers
    <2>4. ASSUME NEW i \in Id, Cleanup(i) PROVE AnswerInv'
        BY <2>4, CleanupAnswers
    <2>5. ASSUME NEW p \in Pid, ClStart(p) PROVE AnswerInv'
        BY <2>5, StartAnswers
    <2>6. ASSUME NEW p \in Pid, ClStep(p) \/ ClKilled(p) PROVE AnswerInv'
        BY <2>6, ClStepAnswers
    <2>7. CASE UNCHANGED vars
        <3>1. UNCHANGED <<variant, kid, cpc, runs, asked, got, box, killed, unread, done>>
            BY <2>7 DEF vars, clients, history
        <3>2. Fresh' = Fresh /\ \A p : Me(p)' = Me(p) /\ Private(p)' = Private(p)
            BY <3>1 DEF Fresh, Me, Private, Sysv
        <3>3. ASSUME NEW p \in Pid, Private(p)', cpc'[p] # "idle" PROVE InOrder(p)' /\ Progress(p)'
            <4>1. InOrder(p) /\ Progress(p)
                BY <3>1, <3>2, <3>3 DEF AnswerInv, Answers
            <4>2. /\ Ended(Me(p)) => Ended(Me(p))'
                  /\ Me(p) \in Serving' => Me(p) \in Serving
                BY <3>1, <3>2 DEF Ended, Serving
            <4>3. QED
                BY <3>1, <3>2, <4>1, <4>2, SameAnswer
        <3>4. WholeFile' /\ \A d \in done' : d.id \in Id /\ d.id \notin Fresh'
            BY <3>1, <3>2, SameReports
        <3>5. QED
            BY <3>1, <3>3, <3>4 DEF AnswerInv, Answers
    <2>8. QED
        BY <2>1, <2>2, <2>3, <2>4, <2>5, <2>6, <2>7 DEF Next, SvStep
<1>3. AnswerInv => WholeFile
    BY DEF AnswerInv
<1>4. QED
    BY <1>1, <1>2, <1>3, PTL DEF Spec

=============================================================================
