--------------------------- MODULE MsgSeqnum_proofs ---------------------------
(***************************************************************************)
(* Proofs about MsgSeqnum, for any pids, lengths, room, starts and kills.  *)
(*                                                                         *)
(* The second part counts the messages under way: no queue is ever beyond  *)
(* its limit, an answer never waits for room in a queue that is large      *)
(* enough, and a start repeats no more ranges than the service allows.     *)
(***************************************************************************)
EXTENDS MsgSeqnum, FiniteSetTheorems, FunctionTheorems, TLAPS

\* Two ranges of one server process have no number in common.
Apart(a, b) == a.era # b.era \/ a.from + a.len <= b.from \/ b.from + b.len <= a.from

\* What the places of an answer hold.  System V clients have no queue of their
\* own, and the POSIX request queue has requests only.
InQueue == IF Sysv THEN Requests \cup Answers ELSE Requests
PlaceTypes ==
    /\ variant \in {"sysv", "posix"} /\ era \in Nat /\ seqNum \in Nat
    /\ queues \in Seq(Seq(InQueue))
    /\ cq \in [Pid -> SUBSET [run : Nat, msgs : Seq(Answers)]]
    /\ \A p \in Pid : (Sysv => cq[p] = {}) /\ \A c, d \in cq[p] : c = d
    /\ \A a \in answers : a.era \in Nat /\ a.from \in Nat /\ a.len \in Len1
ProcessTypes ==
    /\ spc \in {"down", "truncate", "publish", "receive", "open", "send"}
    /\ mine \in Nat /\ cfd \in Nat /\ file \in 0..Len(queues)
    /\ spc # "down" => mine \in 1..Len(queues)
    /\ spc \in {"open", "send"} => req \in Requests
    /\ cpc \in [Pid -> {"idle", "open", "send", "wait"}]
    /\ runs \in [Pid -> Nat] /\ cid \in [Pid -> Nat] /\ len \in [Pid -> Nat]
    /\ \A p \in Pid : /\ cpc[p] # "idle" => len[p] \in Len1
                      /\ cpc[p] \in {"send", "wait"} => cid[p] \in 1..Len(queues)

\* An answer was made by this server process or an earlier one, and its numbers
\* are behind the next one.
Past(m) == m.era <= era /\ (m.era = era /\ Running => m.from + m.len <= seqNum)
IsAnswer(k, i) == i \in 1..Len(queues[k]) /\ queues[k][i].kind = "answer"
AllPast ==
    /\ \A k \in 1..Len(queues), i \in Nat : IsAnswer(k, i) => Past(queues[k][i])
    /\ \A p \in Pid : \A c \in cq[p] : \A i \in 1..Len(c.msgs) : Past(c.msgs[i])
    /\ \A a \in answers : Past(a)

\* The answers in two places are apart.
InQueues ==
    \A k, l \in 1..Len(queues), i, j \in Nat :
        IsAnswer(k, i) /\ IsAnswer(l, j) /\ (k # l \/ i # j) => Apart(queues[k][i], queues[l][j])
InClients ==
    \A p, q \in Pid : \A c \in cq[p], d \in cq[q] : \A i \in 1..Len(c.msgs), j \in 1..Len(d.msgs) :
        p # q \/ i # j => Apart(c.msgs[i], d.msgs[j])
TakenApart(a) ==
    /\ \A k \in 1..Len(queues), i \in Nat : IsAnswer(k, i) => Apart(a, queues[k][i])
    /\ \A p \in Pid : \A c \in cq[p] : \A i \in 1..Len(c.msgs) : Apart(a, c.msgs[i])
    /\ \A b \in answers : a # b => Apart(a, b)

Types == PlaceTypes /\ ProcessTypes
Separate == AllPast /\ InQueues /\ InClients /\ \A a \in answers : TakenApart(a)
IInv == Types /\ Separate

-----------------------------------------------------------------------------
(* Types.                                                                  *)

\* RemoveAt moves what is behind the removed element.
Shift(i, j) == IF j < i THEN j ELSE j + 1
LEMMA RemoveFacts ==
    ASSUME NEW S, NEW s \in Seq(S), NEW i \in 1..Len(s)
    PROVE  /\ RemoveAt(s, i) \in Seq(S)
           /\ Len(RemoveAt(s, i)) = Len(s) - 1
           /\ \A j \in 1..(Len(s) - 1) : RemoveAt(s, i)[j] = s[Shift(i, j)]
<1> DEFINE l == SubSeq(s, 1, i - 1)
           r == SubSeq(s, i + 1, Len(s))
<1>1. l \in Seq(S) /\ Len(l) = i - 1 /\ \A j \in 1..(i - 1) : l[j] = s[j]
    OBVIOUS
<1>2. r \in Seq(S) /\ Len(r) = Len(s) - i /\ \A j \in 1..(Len(s) - i) : r[j] = s[i + j]
    OBVIOUS
<1> HIDE DEF l, r
<1>3. RemoveAt(s, i) = l \o r
    BY DEF RemoveAt, l, r
<1>4. l \o r \in Seq(S) /\ Len(l \o r) = Len(s) - 1
    BY <1>1, <1>2
<1>5. ASSUME NEW j \in 1..(Len(s) - 1) PROVE (l \o r)[j] = s[Shift(i, j)]
    <2>1. CASE j < i
        BY <1>1, <1>2, <2>1 DEF Shift
    <2>2. CASE ~(j < i)
        <3>1. (l \o r)[j] = r[j - (i - 1)]
            BY <1>1, <1>2, <2>2
        <3>2. QED
            BY <1>2, <2>2, <3>1 DEF Shift
    <2>3. QED
        BY <2>1, <2>2
<1>6. QED
    BY <1>3, <1>4, <1>5

LEMMA InitTypes == Init => Types
BY DEF Init, Types, PlaceTypes, ProcessTypes, NoRequest, InQueue

LEMMA AnswerType ==
    ASSUME Types, spc = "send"
    PROVE  /\ req \in Requests /\ req.pid \in Pid /\ req.len \in Len1
           /\ Answer(req.pid, req.len, seqNum) \in Answers
BY DEF Types, PlaceTypes, ProcessTypes, Requests, Answers, Answer

\* Sending to a queue keeps its type and the number of queues.
LEMMA SendTypes ==
    ASSUME Types, NEW k \in 1..Len(queues), NEW m \in InQueue, Send(k, m)
    PROVE  queues' \in Seq(Seq(InQueue)) /\ Len(queues') = Len(queues)
BY DEF Types, PlaceTypes, Send

LEMMA RemoveTypes ==
    ASSUME Types, NEW k \in 1..Len(queues), NEW i \in 1..Len(queues[k]),
           queues' = [queues EXCEPT ![k] = RemoveAt(@, i)]
    PROVE  queues' \in Seq(Seq(InQueue)) /\ Len(queues') = Len(queues)
<1>1. queues[k] \in Seq(InQueue)
    BY DEF Types, PlaceTypes
<1>2. RemoveAt(queues[k], i) \in Seq(InQueue)
    BY <1>1, RemoveFacts
<1>3. QED
    BY <1>2 DEF Types, PlaceTypes

\* The steps of the server.
LEMMA ServerTypes == Types /\ (SvStep \/ SvKilled) => Types'
<1> SUFFICES ASSUME Types, SvStep \/ SvKilled PROVE Types'
    OBVIOUS
<1> USE DEF Types, PlaceTypes, ProcessTypes, clients, history, InQueue, Sysv
<1>1. CASE SvMsgget
    <2>1. queues' \in Seq(Seq(InQueue)) /\ Len(queues') = Len(queues) + 1
        BY <1>1 DEF SvMsgget
    <2>2. QED
        BY <1>1, <2>1 DEF SvMsgget, Starting
<1>2. CASE SvTruncate
    BY <1>2 DEF SvTruncate
<1>3. CASE SvPublish
    BY <1>3 DEF SvPublish
<1>4. CASE SvMqOpen
    <2>1. CASE queues = <<>>
        <3>1. queues' = Append(queues, <<>>) /\ mine' = 1
            BY <1>4, <2>1 DEF SvMqOpen
        <3>2. queues' \in Seq(Seq(InQueue)) /\ Len(queues') = Len(queues) + 1
            BY <3>1
        <3>3. QED
            BY <1>4, <2>1, <3>1, <3>2 DEF SvMqOpen, Starting
    <2>2. CASE queues # <<>>
        BY <1>4, <2>2 DEF SvMqOpen, Starting
    <2>3. QED
        BY <2>1, <2>2
<1>5. CASE SvReceive
    <2>1. PICK k \in 1..Len(queues[mine]) :
              /\ First(k, RequestsIn(queues[mine])) /\ req' = queues[mine][k]
              /\ queues' = [queues EXCEPT ![mine] = RemoveAt(@, k)]
        BY <1>5 DEF SvReceive
    <2>2. queues' \in Seq(Seq(InQueue)) /\ Len(queues') = Len(queues)
        BY <1>5, <2>1, RemoveTypes DEF SvReceive
    <2>3. req' \in Requests
        <3>1. queues[mine] \in Seq(InQueue)
            BY <1>5 DEF SvReceive
        <3>2. queues[mine][k] \in Requests \/ queues[mine][k] \in Answers
            BY <2>1, <3>1
        <3>3. queues[mine][k].kind = "request"
            BY <2>1 DEF First, RequestsIn
        <3>4. QED
            BY <2>1, <3>2, <3>3 DEF Answers
    <2>4. QED
        BY <1>5, <2>2, <2>3 DEF SvReceive
<1>6. CASE SvOpenClient
    <2>1. cfd' \in Nat
        BY <1>6 DEF SvOpenClient, Requests
    <2>2. QED
        BY <1>6, <2>1 DEF SvOpenClient
<1>7. CASE SvSend
    <2> DEFINE m == Answer(req.pid, req.len, seqNum)
    <2>1. m \in Answers /\ req.pid \in Pid /\ req.len \in Nat
        BY <1>7, AnswerType, MsgSeqnumAssumption DEF SvSend
    <2> HIDE DEF m
    <2>2. queues' \in Seq(Seq(InQueue)) /\ Len(queues') = Len(queues)
        BY <1>7, <2>1, SendTypes DEF SvSend, SendAnswer, m
    <2>3. /\ cq' \in [Pid -> SUBSET [run : Nat, msgs : Seq(Answers)]]
          /\ \A p \in Pid : (Sysv => cq'[p] = {}) /\ \A c, d \in cq'[p] : c = d
        <3>1. CASE Sysv
            BY <1>7, <3>1 DEF SvSend, SendAnswer
        <3>2. CASE ~Sysv
            <4> DEFINE New(c) == IF c.run = cfd THEN [run |-> cfd, msgs |-> Append(c.msgs, m)] ELSE c
            <4>1. cq' = [cq EXCEPT ![req.pid] = {New(c) : c \in @}]
                BY <1>7, <3>2 DEF SvSend, SendAnswer, m
            <4>2. \A c \in cq[req.pid] : New(c) \in [run : Nat, msgs : Seq(Answers)]
                BY <2>1
            <4> HIDE DEF New
            <4>3. cq'[req.pid] = {New(c) : c \in cq[req.pid]}
                BY <2>1, <4>1
            <4>4. /\ cq'[req.pid] \in SUBSET [run : Nat, msgs : Seq(Answers)]
                  /\ \A c, d \in cq'[req.pid] : c = d
                BY <2>1, <4>2, <4>3
            <4>5. \A p \in Pid : p # req.pid => cq'[p] = cq[p]
                BY <4>1
            <4>6. cq' = [p \in Pid |-> cq'[p]]
                BY <4>1
            <4>7. QED
                BY <3>2, <4>4, <4>5, <4>6
        <3>3. QED
            BY <3>1, <3>2
    <2>4. seqNum' \in Nat
        BY <1>7, <2>1 DEF SvSend
    <2>5. QED
        BY <1>7, <2>2, <2>3, <2>4 DEF SvSend
<1>8. CASE SvKilled
    BY <1>8 DEF SvKilled
<1>9. QED
    BY <1>1, <1>2, <1>3, <1>4, <1>5, <1>6, <1>7, <1>8 DEF SvStep

\* The steps of a client and of who removes its queue.
LEMMA ClientTypes ==
    ASSUME Types, NEW p \in Pid,
           ClReadFile(p) \/ ClCreateQueue(p) \/ ClStep(p) \/ ClKilled(p) \/ Cleanup(p)
    PROVE  Types'
<1> USE DEF Types, PlaceTypes, ProcessTypes, clients, server, history, InQueue, Sysv
<1>1. CASE ClReadFile(p)
    <2>1. runs' \in [Pid -> Nat]
        BY <1>1 DEF ClReadFile, Begin
    <2>2. CASE file = 0
        BY <1>1, <2>1, <2>2 DEF ClReadFile
    <2>3. CASE file # 0
        <3>1. PICK l \in Len1 : len' = [len EXCEPT ![p] = l]
            BY <1>1, <2>3 DEF ClReadFile
        <3>2. len' \in [Pid -> Nat] /\ len'[p] \in Len1 /\ \A q \in Pid \ {p} : len'[q] = len[q]
            BY <3>1, MsgSeqnumAssumption
        <3>3. cid' = [cid EXCEPT ![p] = file] /\ cpc' = [cpc EXCEPT ![p] = "send"] /\ file \in 1..Len(queues)
            BY <1>1, <2>3 DEF ClReadFile, Goto
        <3>4. PlaceTypes'
            BY <1>1 DEF ClReadFile
        <3>5. QED
            BY <1>1, <2>1, <3>2, <3>3, <3>4 DEF ClReadFile
    <2>4. QED
        BY <2>2, <2>3
<1>2. CASE ClCreateQueue(p)
    <2>1. runs' \in [Pid -> Nat]
        BY <1>2 DEF ClCreateQueue, Begin
    <2>2. CASE cq[p] # {}
        BY <1>2, <2>1, <2>2 DEF ClCreateQueue
    <2>3. CASE cq[p] = {}
        <3>1. PICK l \in Len1 : len' = [len EXCEPT ![p] = l]
            BY <1>2, <2>3 DEF ClCreateQueue
        <3>2. len' \in [Pid -> Nat] /\ len'[p] \in Len1 /\ \A q \in Pid \ {p} : len'[q] = len[q]
            BY <3>1, MsgSeqnumAssumption
        <3>3. ~Sysv /\ cq' = [cq EXCEPT ![p] = {[run |-> runs[p], msgs |-> <<>>]}]
            BY <1>2, <2>3 DEF ClCreateQueue
        <3>4. /\ cq' \in [Pid -> SUBSET [run : Nat, msgs : Seq(Answers)]]
              /\ \A q \in Pid : \A c, d \in cq'[q] : c = d
            <4> DEFINE new == [run |-> runs[p], msgs |-> <<>>]
            <4>1. new \in [run : Nat, msgs : Seq(Answers)]
                OBVIOUS
            <4> HIDE DEF new
            <4>2. QED
                BY <3>3, <4>1 DEF new
        <3>5. PlaceTypes'
            BY <1>2, <3>3, <3>4 DEF ClCreateQueue
        <3>6. ProcessTypes'
            BY <1>2, <2>1, <2>3, <3>2 DEF ClCreateQueue, Goto
        <3>7. QED
            BY <3>5, <3>6
    <2>4. QED
        BY <2>2, <2>3
<1>3. CASE ClOpenServer(p)
    <2>1. PlaceTypes'
        BY <1>3 DEF ClOpenServer
    <2>2. CASE queues = <<>>
        BY <1>3, <2>1, <2>2 DEF ClOpenServer, Goto
    <2>3. CASE queues # <<>>
        <3>1. 1 \in 1..Len(queues)
            BY <2>3
        <3>2. cid' = [cid EXCEPT ![p] = 1] /\ cpc' = [cpc EXCEPT ![p] = "send"]
            BY <1>3, <2>3 DEF ClOpenServer, Goto
        <3>3. QED
            BY <1>3, <2>1, <2>3, <3>1, <3>2 DEF ClOpenServer
    <2>4. QED
        BY <2>2, <2>3
<1>4. CASE ClSend(p)
    <2>1. Request(p, len[p]) \in Requests
        BY <1>4 DEF ClSend, Request, Requests
    <2>2. queues' \in Seq(Seq(InQueue)) /\ Len(queues') = Len(queues)
        BY <1>4, <2>1, SendTypes DEF ClSend
    <2>3. QED
        BY <1>4, <2>2 DEF ClSend, Goto
<1>5. CASE ClReceive(p)
    <2>1. queues' \in Seq(Seq(InQueue)) /\ Len(queues') = Len(queues)
        <3>1. CASE Sysv
            BY <1>5, <3>1, RemoveTypes DEF ClReceive
        <3>2. CASE ~Sysv
            BY <1>5, <3>2 DEF ClReceive
        <3>3. QED
            BY <3>1, <3>2
    <2>2. /\ cq' \in [Pid -> SUBSET [run : Nat, msgs : Seq(Answers)]]
          /\ \A q \in Pid : (Sysv => cq'[q] = {}) /\ \A c, d \in cq'[q] : c = d
        BY <1>5 DEF ClReceive
    <2>3. \A a \in answers' : a.era \in Nat /\ a.from \in Nat /\ a.len \in Len1
        <3>1. PICK m \in Answers : Received(p, m)
            <4>1. CASE Sysv
                <5>1. PICK k \in 1..Len(queues[cid[p]]) :
                          /\ First(k, AnswersIn(queues[cid[p]], p)) /\ Received(p, queues[cid[p]][k])
                    BY <1>5, <4>1 DEF ClReceive
                <5>2. queues[cid[p]] \in Seq(InQueue)
                    BY <1>5 DEF ClReceive
                <5>3. queues[cid[p]][k].kind = "answer"
                    BY <5>1 DEF First, AnswersIn
                <5>4. queues[cid[p]][k] \in Requests \/ queues[cid[p]][k] \in Answers
                    BY <5>1, <5>2
                <5>5. queues[cid[p]][k] \in Answers
                    BY <5>3, <5>4 DEF Requests
                <5>6. QED
                    BY <5>1, <5>5
            <4>2. CASE ~Sysv
                <5>1. PICK c \in cq[p] : c.msgs # <<>> /\ Received(p, Head(c.msgs))
                    BY <1>5, <4>2 DEF ClReceive
                <5>2. Head(c.msgs) \in Answers
                    BY <5>1
                <5>3. QED
                    BY <5>1, <5>2
            <4>3. QED
                BY <4>1, <4>2
        <3>2. QED
            BY <3>1 DEF Received, Answers
    <2>4. QED
        BY <1>5, <2>1, <2>2, <2>3 DEF ClReceive, Goto
<1>6. CASE ClKilled(p)
    BY <1>6 DEF ClKilled, Goto
<1>7. CASE Cleanup(p)
    BY <1>7 DEF Cleanup
<1>8. QED
    BY <1>1, <1>2, <1>3, <1>4, <1>5, <1>6, <1>7 DEF ClStep

-----------------------------------------------------------------------------
(* Numbers.                                                                *)

\* Time passes without a number handed out.
NoNumber ==
    \/ era' = era /\ seqNum' = seqNum /\ (Running' => Running)
    \/ era' = era + 1

LEMMA PastStays ==
    ASSUME Types, NoNumber, NEW m, m.era \in Nat, Past(m)
    PROVE  m.era <= era' /\ (m.era = era' /\ Running' => m.from + m.len <= seqNum')
BY DEF NoNumber, Past, Types, PlaceTypes

\* The type of an answer in a queue.
LEMMA QueuedAnswer ==
    ASSUME Types, NEW k \in 1..Len(queues), NEW i \in Nat, IsAnswer(k, i)
    PROVE  queues[k][i] \in Answers
<1>1. queues[k] \in Seq(InQueue) /\ i \in 1..Len(queues[k])
    BY DEF Types, PlaceTypes, IsAnswer
<1>2. queues[k][i] \in InQueue
    BY <1>1
<1>3. QED
    BY <1>2 DEF InQueue, IsAnswer, Requests

\* A step that hands out and takes no answer, and moves none.
LEMMA Carried ==
    ASSUME Types, Separate, Types', NoNumber, answers' = answers,
           \A k \in 1..Len(queues'), i \in Nat :
               IsAnswer(k, i)' => k \in 1..Len(queues) /\ IsAnswer(k, i) /\ queues'[k][i] = queues[k][i],
           \A p \in Pid : \A c \in cq'[p] : c.msgs = <<>> \/ c \in cq[p]
    PROVE  Separate'
<1>1. \A k \in 1..Len(queues'), i \in Nat : IsAnswer(k, i)' => Past(queues[k][i]) /\ queues[k][i].era \in Nat
    BY QueuedAnswer DEF Separate, AllPast, Answers
<1>2. AllPast'
    <2>1. \A k \in 1..Len(queues'), i \in Nat : IsAnswer(k, i)' => Past(queues[k][i])'
        BY <1>1, PastStays DEF Past
    <2>2. \A p \in Pid : \A c \in cq'[p] : \A i \in 1..Len(c.msgs) : Past(c.msgs[i])'
        <3> SUFFICES ASSUME NEW p \in Pid, NEW c \in cq'[p], NEW i \in 1..Len(c.msgs)
                     PROVE  Past(c.msgs[i])'
            OBVIOUS
        <3>1. c \in cq[p] /\ c.msgs \in Seq(Answers)
            BY DEF Types, PlaceTypes
        <3>2. Past(c.msgs[i]) /\ c.msgs[i].era \in Nat
            <4>1. c.msgs[i] \in Answers
                BY <3>1
            <4>2. QED
                BY <3>1, <4>1 DEF Separate, AllPast, Answers
        <3>3. QED
            BY <3>2, PastStays DEF Past
    <2>3. \A a \in answers' : Past(a)'
        BY PastStays DEF Past, Separate, AllPast, Types, PlaceTypes
    <2>4. QED
        BY <2>1, <2>2, <2>3 DEF AllPast, Past
<1>3. InQueues'
    <2> SUFFICES ASSUME NEW k \in 1..Len(queues'), NEW l \in 1..Len(queues'), NEW i \in Nat, NEW j \in Nat,
                        IsAnswer(k, i)', IsAnswer(l, j)', k # l \/ i # j
                 PROVE  Apart(queues'[k][i], queues'[l][j])
        BY DEF InQueues, Apart
    <2>1. QED
        BY DEF Separate, InQueues
<1>4. InClients'
    <2> SUFFICES ASSUME NEW p \in Pid, NEW q \in Pid, NEW c \in cq'[p], NEW d \in cq'[q],
                        NEW i \in 1..Len(c.msgs), NEW j \in 1..Len(d.msgs), p # q \/ i # j
                 PROVE  Apart(c.msgs[i], d.msgs[j])
        BY DEF InClients, Apart
    <2>1. c \in cq[p] /\ d \in cq[q]
        OBVIOUS
    <2>2. QED
        BY <2>1 DEF Separate, InClients
<1>5. \A a \in answers' : TakenApart(a)'
    <2> SUFFICES ASSUME NEW a \in answers' PROVE TakenApart(a)'
        OBVIOUS
    <2>1. TakenApart(a)
        BY DEF Separate
    <2>2. \A k \in 1..Len(queues'), i \in Nat : IsAnswer(k, i)' => Apart(a, queues'[k][i])
        BY <2>1 DEF TakenApart
    <2>3. \A p \in Pid : \A c \in cq'[p] : \A i \in 1..Len(c.msgs) : Apart(a, c.msgs[i])
        BY <2>1 DEF TakenApart
    <2>4. \A b \in answers' : a # b => Apart(a, b)
        BY <2>1 DEF TakenApart
    <2>5. QED
        BY <2>2, <2>3, <2>4 DEF TakenApart, Apart
<1>6. QED
    BY <1>2, <1>3, <1>4, <1>5 DEF Separate

\* An element leaves a queue; if it was an answer, it is received.
LEMMA Taken ==
    ASSUME Types, Separate, Types', NoNumber, cq' = cq,
           NEW k0 \in 1..Len(queues), NEW i0 \in 1..Len(queues[k0]),
           queues' = [queues EXCEPT ![k0] = RemoveAt(@, i0)],
           NEW new, answers' = answers \cup new, \A r, t \in new : r = t,
           \A r \in new : /\ IsAnswer(k0, i0) /\ r.era = queues[k0][i0].era
                          /\ r.from = queues[k0][i0].from /\ r.len = queues[k0][i0].len
    PROVE  Separate'
<1> DEFINE Old(k, i) == IF k = k0 THEN Shift(i0, i) ELSE i
<1>1. queues[k0] \in Seq(InQueue) /\ queues \in Seq(Seq(InQueue))
    BY DEF Types, PlaceTypes
<1>2. ASSUME NEW k \in 1..Len(queues'), NEW i \in Nat, IsAnswer(k, i)'
      PROVE  /\ k \in 1..Len(queues) /\ Old(k, i) \in Nat /\ IsAnswer(k, Old(k, i))
             /\ queues'[k][i] = queues[k][Old(k, i)] /\ ~(k = k0 /\ Old(k, i) = i0)
    <2>1. k \in 1..Len(queues)
        BY <1>1
    <2>2. CASE k = k0
        <3>1. queues'[k] = RemoveAt(queues[k0], i0)
            BY <1>1, <2>2
        <3>2. i \in 1..(Len(queues[k0]) - 1) /\ queues'[k][i] = queues[k0][Shift(i0, i)]
            <4>1. i \in 1..Len(RemoveAt(queues[k0], i0))
                BY <1>2, <3>1, <2>2 DEF IsAnswer
            <4>2. /\ Len(RemoveAt(queues[k0], i0)) = Len(queues[k0]) - 1
                  /\ \A j \in 1..(Len(queues[k0]) - 1) : RemoveAt(queues[k0], i0)[j] = queues[k0][Shift(i0, j)]
                BY <1>1, RemoveFacts
            <4>3. QED
                BY <2>2, <3>1, <4>1, <4>2
        <3>3. Shift(i0, i) \in 1..Len(queues[k0]) /\ Shift(i0, i) # i0
            BY <1>1, <3>2 DEF Shift
        <3>4. QED
            BY <1>2, <2>1, <2>2, <3>2, <3>3 DEF IsAnswer
    <2>3. CASE k # k0
        BY <1>1, <1>2, <2>1, <2>3 DEF IsAnswer
    <2>4. QED
        BY <2>2, <2>3
<1>3. \A i, j \in Nat, k \in 1..Len(queues) : i # j => Old(k, i) # Old(k, j)
    BY <1>1 DEF Shift
<1> HIDE DEF Old
<1>4. \A r \in new : Past(r) /\ r.era \in Nat
    BY QueuedAnswer DEF Separate, AllPast, Past, Answers
<1>5. AllPast'
    <2>1. ASSUME NEW k \in 1..Len(queues'), NEW i \in Nat, IsAnswer(k, i)'
          PROVE  Past(queues[k][i])'
        <3>1. Past(queues'[k][i]) /\ queues'[k][i].era \in Nat
            BY <1>2, <2>1, QueuedAnswer DEF Separate, AllPast, Answers
        <3>2. QED
            BY <3>1, PastStays DEF Past
    <2>2. ASSUME NEW p \in Pid, NEW c \in cq'[p], NEW i \in 1..Len(c.msgs)
          PROVE  Past(c.msgs[i])'
        <3>1. c.msgs[i] \in Answers
            BY DEF Types, PlaceTypes
        <3>2. Past(c.msgs[i]) /\ c.msgs[i].era \in Nat
            BY <3>1 DEF Separate, AllPast, Answers
        <3>3. QED
            BY <3>2, PastStays DEF Past
    <2>3. ASSUME NEW a \in answers' PROVE Past(a)'
        BY <1>4, PastStays DEF Past, Separate, AllPast, Types, PlaceTypes
    <2>4. QED
        BY <2>1, <2>2, <2>3 DEF AllPast, Past
<1>6. InQueues'
    <2> SUFFICES ASSUME NEW k \in 1..Len(queues'), NEW l \in 1..Len(queues'), NEW i \in Nat, NEW j \in Nat,
                        IsAnswer(k, i)', IsAnswer(l, j)', k # l \/ i # j
                 PROVE  Apart(queues'[k][i], queues'[l][j])
        BY DEF InQueues, Apart
    <2>1. k # l \/ Old(k, i) # Old(l, j)
        BY <1>2, <1>3
    <2>2. QED
        BY <1>2, <2>1 DEF Separate, InQueues
<1>7. InClients'
    BY DEF Separate, InClients, Apart
<1>8. ASSUME NEW a \in answers' PROVE TakenApart(a)'
    <2>1. CASE a \in answers
        <3>1. TakenApart(a)
            BY <2>1 DEF Separate
        <3>2. \A k \in 1..Len(queues'), i \in Nat : IsAnswer(k, i)' => Apart(a, queues'[k][i])
            BY <1>2, <3>1 DEF TakenApart
        <3>3. \A p \in Pid : \A c \in cq'[p] : \A i \in 1..Len(c.msgs) : Apart(a, c.msgs[i])
            BY <3>1 DEF TakenApart
        <3>4. \A b \in answers' : a # b => Apart(a, b)
            BY <3>1 DEF TakenApart, Apart
        <3>5. QED
            BY <3>2, <3>3, <3>4 DEF TakenApart, Apart
    <2>2. CASE a \in new
        <3>1. \A k \in 1..Len(queues'), i \in Nat : IsAnswer(k, i)' => Apart(a, queues'[k][i])
            <4> SUFFICES ASSUME NEW k \in 1..Len(queues'), NEW i \in Nat, IsAnswer(k, i)'
                         PROVE  Apart(a, queues'[k][i])
                OBVIOUS
            <4>1. Apart(queues[k0][i0], queues[k][Old(k, i)])
                BY <1>2, <2>2 DEF Separate, InQueues
            <4>2. QED
                BY <1>2, <2>2, <4>1 DEF Apart
        <3>2. ASSUME NEW p \in Pid, NEW c \in cq'[p] PROVE FALSE
            <4>1. ~Sysv
                BY DEF Types, PlaceTypes
            <4>2. queues[k0][i0] \in Requests
                BY <1>1, <4>1 DEF InQueue
            <4>3. QED
                BY <2>2, <4>2 DEF IsAnswer, Requests
        <3>3. \A b \in answers' : a # b => Apart(a, b)
            <4> SUFFICES ASSUME NEW b \in answers PROVE Apart(a, b)
                BY <2>2
            <4>1. Apart(b, queues[k0][i0])
                BY <2>2 DEF Separate, TakenApart
            <4>2. QED
                BY <2>2, <4>1 DEF Apart
        <3>4. QED
            BY <3>1, <3>2, <3>3 DEF TakenApart, Apart
    <2>3. QED
        BY <2>1, <2>2
<1>9. QED
    BY <1>5, <1>6, <1>7, <1>8 DEF Separate

\* A POSIX client receives the answer in its queue, and removes the queue.
LEMMA TakenFromClient ==
    ASSUME Types, Separate, Types', NoNumber, queues' = queues,
           NEW p \in Pid, cq' = [cq EXCEPT ![p] = {}],
           NEW c0 \in cq[p], c0.msgs # <<>>,
           NEW r, answers' = answers \cup {r},
           r.era = Head(c0.msgs).era, r.from = Head(c0.msgs).from, r.len = Head(c0.msgs).len
    PROVE  Separate'
<1> DEFINE m == c0.msgs[1]
<1>1. c0.msgs \in Seq(Answers) /\ m \in Answers /\ 1 \in 1..Len(c0.msgs)
    BY DEF Types, PlaceTypes
<1>2. r.era = m.era /\ r.from = m.from /\ r.len = m.len /\ Past(m) /\ m.era \in Nat
    BY <1>1 DEF Separate, AllPast, Answers
<1> HIDE DEF m
<1>3. \A q \in Pid : \A c \in cq'[q] : q # p /\ c \in cq[q]
    BY DEF Types, PlaceTypes
<1>4. ASSUME NEW k \in 1..Len(queues), NEW i \in Nat, IsAnswer(k, i) PROVE FALSE
    <2>1. ~Sysv
        BY DEF Types, PlaceTypes
    <2>2. queues[k][i] \in Requests
        BY <1>4, <2>1 DEF Types, PlaceTypes, InQueue, IsAnswer
    <2>3. QED
        BY <1>4, <2>2 DEF IsAnswer, Requests
<1>5. AllPast'
    <2>1. \A k \in 1..Len(queues'), i \in Nat : ~IsAnswer(k, i)'
        BY <1>4 DEF IsAnswer
    <2>2. ASSUME NEW q \in Pid, NEW c \in cq'[q], NEW i \in 1..Len(c.msgs)
          PROVE  Past(c.msgs[i])'
        <3>1. c \in cq[q] /\ c.msgs[i] \in Answers
            BY <1>3 DEF Types, PlaceTypes
        <3>2. Past(c.msgs[i]) /\ c.msgs[i].era \in Nat
            BY <3>1 DEF Separate, AllPast, Answers
        <3>3. QED
            BY <3>2, PastStays DEF Past
    <2>3. ASSUME NEW a \in answers' PROVE Past(a)'
        <3>1. Past(a) /\ a.era \in Nat
            BY <1>2 DEF Past, Separate, AllPast, Types, PlaceTypes
        <3>2. QED
            BY <3>1, PastStays DEF Past
    <2>4. QED
        BY <2>1, <2>2, <2>3 DEF AllPast, Past
<1>6. InQueues'
    BY <1>4 DEF InQueues, IsAnswer
<1>7. InClients'
    BY <1>3 DEF Separate, InClients, Apart
<1>8. ASSUME NEW a \in answers' PROVE TakenApart(a)'
    <2>1. \A k \in 1..Len(queues'), i \in Nat : ~IsAnswer(k, i)'
        BY <1>4 DEF IsAnswer
    <2>2. ASSUME NEW q \in Pid, NEW c \in cq'[q], NEW i \in 1..Len(c.msgs)
          PROVE  Apart(a, c.msgs[i])
        <3>1. q # p /\ c \in cq[q]
            BY <1>3
        <3>2. Apart(m, c.msgs[i])
            BY <1>1, <3>1 DEF Separate, InClients, m
        <3>3. CASE a \in answers
            BY <3>1, <3>3 DEF Separate, TakenApart
        <3>4. CASE a = r
            BY <1>2, <3>2, <3>4 DEF Apart
        <3>5. QED
            BY <3>3, <3>4
    <2>3. ASSUME NEW b \in answers', a # b PROVE Apart(a, b)
        <3>1. CASE a \in answers /\ b \in answers
            BY <2>3, <3>1 DEF Separate, TakenApart
        <3>2. ASSUME NEW d \in answers PROVE Apart(d, m)
            BY <1>1 DEF Separate, TakenApart, m
        <3>3. QED
            BY <1>2, <2>3, <3>1, <3>2 DEF Apart
    <2>4. QED
        BY <2>1, <2>2, <2>3 DEF TakenApart, Apart
<1>9. QED
    BY <1>5, <1>6, <1>7, <1>8 DEF Separate

\* The answer about to be sent has numbers of its own, and they are used up.
LEMMA Fresh ==
    ASSUME Types, SvSend, NEW a, Past(a), a.era \in Nat, a.from \in Nat, a.len \in Nat
    PROVE  /\ Apart(a, Answer(req.pid, req.len, seqNum)) /\ Apart(Answer(req.pid, req.len, seqNum), a)
           /\ a.era <= era' /\ (a.era = era' /\ Running' => a.from + a.len <= seqNum')
<1>1. req.len \in Nat /\ seqNum \in Nat /\ era \in Nat
    BY AnswerType, MsgSeqnumAssumption DEF SvSend, Types, PlaceTypes
<1>2. Running /\ seqNum' = seqNum + req.len /\ era' = era
    BY DEF SvSend, Running
<1>3. QED
    BY <1>1, <1>2 DEF Past, Apart, Answer

LEMMA AnswerPast ==
    ASSUME Types, SvSend
    PROVE  LET m == Answer(req.pid, req.len, seqNum)
           IN  m.era <= era' /\ (m.era = era' /\ Running' => m.from + m.len <= seqNum')
<1>1. req.len \in Nat /\ seqNum \in Nat /\ era \in Nat
    BY AnswerType, MsgSeqnumAssumption DEF SvSend, Types, PlaceTypes
<1>2. QED
    BY <1>1 DEF SvSend, Answer

\* The answer is sent: it is one more in the request queue, or in a client's.
LEMMA SentShared ==
    ASSUME Types, Separate, Types', SvSend, Sysv
    PROVE  Separate'
<1> DEFINE m == Answer(req.pid, req.len, seqNum)
<1>1. queues' = [queues EXCEPT ![mine] = Append(@, m)] /\ cq' = cq /\ answers' = answers
    BY DEF SvSend, SendAnswer, Send, history
<1>2. m \in InQueue /\ queues \in Seq(Seq(InQueue)) /\ mine \in 1..Len(queues)
    BY AnswerType DEF SvSend, InQueue, Types, PlaceTypes, ProcessTypes
<1>3. \A p \in Pid : cq[p] = {}
    BY DEF Types, PlaceTypes
<1> HIDE DEF m
<1>4. ASSUME NEW k \in 1..Len(queues'), NEW i \in Nat, IsAnswer(k, i)'
      PROVE  /\ k \in 1..Len(queues)
             /\ \/ IsAnswer(k, i) /\ queues'[k][i] = queues[k][i]
                \/ k = mine /\ i = Len(queues[mine]) + 1 /\ queues'[k][i] = m
    BY <1>1, <1>2, <1>4 DEF IsAnswer
<1>5. \A k \in 1..Len(queues), i \in Nat : IsAnswer(k, i) =>
          /\ Past(queues[k][i]) /\ queues[k][i].era \in Nat
          /\ queues[k][i].from \in Nat /\ queues[k][i].len \in Nat
    BY QueuedAnswer, MsgSeqnumAssumption DEF Separate, AllPast, Answers
<1>6. \A a \in answers : Past(a) /\ a.era \in Nat /\ a.from \in Nat /\ a.len \in Nat
    BY MsgSeqnumAssumption DEF Separate, AllPast, Types, PlaceTypes
<1>7. AllPast'
    <2>1. ASSUME NEW k \in 1..Len(queues'), NEW i \in Nat, IsAnswer(k, i)'
          PROVE  Past(queues[k][i])'
        BY <1>4, <1>5, <2>1, Fresh, AnswerPast DEF Past, m
    <2>2. \A a \in answers' : Past(a)'
        BY <1>1, <1>6, Fresh DEF Past
    <2>3. QED
        BY <1>1, <1>3, <2>1, <2>2 DEF AllPast, Past
<1>8. InQueues'
    <2> SUFFICES ASSUME NEW k \in 1..Len(queues'), NEW l \in 1..Len(queues'), NEW i \in Nat, NEW j \in Nat,
                        IsAnswer(k, i)', IsAnswer(l, j)', k # l \/ i # j
                 PROVE  Apart(queues'[k][i], queues'[l][j])
        BY DEF InQueues, Apart
    <2>1. CASE IsAnswer(k, i) /\ queues'[k][i] = queues[k][i] /\ IsAnswer(l, j) /\ queues'[l][j] = queues[l][j]
        BY <1>4, <2>1 DEF Separate, InQueues
    <2>2. CASE IsAnswer(k, i) /\ queues'[k][i] = queues[k][i] /\ queues'[l][j] = m
        BY <1>4, <1>5, <2>2, Fresh DEF m
    <2>3. CASE IsAnswer(l, j) /\ queues'[l][j] = queues[l][j] /\ queues'[k][i] = m
        BY <1>4, <1>5, <2>3, Fresh DEF m
    <2>4. QED
        BY <1>4, <2>1, <2>2, <2>3
<1>9. InClients'
    BY <1>1, <1>3 DEF InClients
<1>10. ASSUME NEW a \in answers' PROVE TakenApart(a)'
    <2>1. TakenApart(a) /\ a \in answers
        BY <1>1 DEF Separate
    <2>2. \A k \in 1..Len(queues'), i \in Nat : IsAnswer(k, i)' => Apart(a, queues'[k][i])
        <3> SUFFICES ASSUME NEW k \in 1..Len(queues'), NEW i \in Nat, IsAnswer(k, i)'
                     PROVE  Apart(a, queues'[k][i])
            OBVIOUS
        <3>1. CASE IsAnswer(k, i) /\ queues'[k][i] = queues[k][i]
            BY <1>4, <2>1, <3>1 DEF TakenApart
        <3>2. CASE queues'[k][i] = m
            BY <1>6, <2>1, <3>2, Fresh DEF m
        <3>3. QED
            BY <1>4, <3>1, <3>2
    <2>3. QED
        BY <1>1, <1>3, <2>1, <2>2 DEF TakenApart, Apart
<1>11. QED
    BY <1>7, <1>8, <1>9, <1>10 DEF Separate

LEMMA SentToClient ==
    ASSUME Types, Separate, Types', SvSend, ~Sysv
    PROVE  Separate'
<1> DEFINE m == Answer(req.pid, req.len, seqNum)
           New(c) == IF c.run = cfd THEN [run |-> cfd, msgs |-> Append(c.msgs, m)] ELSE c
<1>1. cq' = [cq EXCEPT ![req.pid] = {New(c) : c \in @}] /\ queues' = queues /\ answers' = answers
    BY DEF SvSend, SendAnswer, history
<1>2. m \in Answers /\ req.pid \in Pid
    BY AnswerType DEF SvSend
<1>3. ASSUME NEW k \in 1..Len(queues), NEW i \in Nat, IsAnswer(k, i) PROVE FALSE
    <2>1. queues[k][i] \in Requests
        BY <1>3 DEF Types, PlaceTypes, InQueue, IsAnswer
    <2>2. QED
        BY <1>3, <2>1 DEF IsAnswer, Requests
<1> HIDE DEF m
\* A client's message is an old one at its place, or the new one behind them.
<1>4. ASSUME NEW p \in Pid, NEW c \in cq'[p], NEW i \in 1..Len(c.msgs)
      PROVE  \E d \in cq[p] : \/ i \in 1..Len(d.msgs) /\ c.msgs[i] = d.msgs[i]
                              \/ p = req.pid /\ i = Len(d.msgs) + 1 /\ c.msgs[i] = m
    <2>1. CASE p = req.pid
        <3> HIDE DEF New
        <3>1. cq'[p] = {New(d) : d \in cq[p]}
            BY <1>1, <2>1 DEF Types, PlaceTypes
        <3>2. PICK d \in cq[p] : c = New(d)
            BY <3>1
        <3>3. d.msgs \in Seq(Answers)
            BY DEF Types, PlaceTypes
        <3>4. CASE d.run = cfd
            <4>1. c.msgs = Append(d.msgs, m)
                BY <3>2, <3>4 DEF New
            <4>2. QED
                BY <1>2, <2>1, <3>3, <4>1
        <3>5. CASE d.run # cfd
            BY <3>2, <3>5 DEF New
        <3>6. QED
            BY <3>4, <3>5
    <2>2. CASE p # req.pid
        BY <1>1, <2>2 DEF Types, PlaceTypes
    <2>3. QED
        BY <2>1, <2>2
<1> HIDE DEF New
<1>5. ASSUME NEW p \in Pid, NEW d \in cq[p], NEW i \in 1..Len(d.msgs)
      PROVE  /\ Past(d.msgs[i]) /\ d.msgs[i].era \in Nat
             /\ d.msgs[i].from \in Nat /\ d.msgs[i].len \in Nat
    <2>1. d.msgs[i] \in Answers
        BY DEF Types, PlaceTypes
    <2>2. QED
        BY <2>1, MsgSeqnumAssumption DEF Separate, AllPast, Answers
<1>6. \A a \in answers : Past(a) /\ a.era \in Nat /\ a.from \in Nat /\ a.len \in Nat
    BY MsgSeqnumAssumption DEF Separate, AllPast, Types, PlaceTypes
<1>7. AllPast'
    <2>1. \A k \in 1..Len(queues'), i \in Nat : ~IsAnswer(k, i)'
        BY <1>1, <1>3 DEF IsAnswer
    <2>2. ASSUME NEW p \in Pid, NEW c \in cq'[p], NEW i \in 1..Len(c.msgs)
          PROVE  Past(c.msgs[i])'
        <3>1. PICK d \in cq[p] : \/ i \in 1..Len(d.msgs) /\ c.msgs[i] = d.msgs[i]
                                 \/ p = req.pid /\ i = Len(d.msgs) + 1 /\ c.msgs[i] = m
            BY <1>4
        <3>2. CASE i \in 1..Len(d.msgs) /\ c.msgs[i] = d.msgs[i]
            BY <1>5, <3>2, Fresh DEF Past
        <3>3. CASE c.msgs[i] = m
            BY <3>3, AnswerPast DEF Past, m
        <3>4. QED
            BY <3>1, <3>2, <3>3
    <2>3. \A a \in answers' : Past(a)'
        BY <1>1, <1>6, Fresh DEF Past
    <2>4. QED
        BY <2>1, <2>2, <2>3 DEF AllPast, Past
<1>8. InQueues'
    BY <1>1, <1>3 DEF InQueues, IsAnswer
<1>9. InClients'
    <2> SUFFICES ASSUME NEW p \in Pid, NEW q \in Pid, NEW c \in cq'[p], NEW d \in cq'[q],
                        NEW i \in 1..Len(c.msgs), NEW j \in 1..Len(d.msgs), p # q \/ i # j
                 PROVE  Apart(c.msgs[i], d.msgs[j])
        BY DEF InClients, Apart
    <2>1. PICK x \in cq[p] : \/ i \in 1..Len(x.msgs) /\ c.msgs[i] = x.msgs[i]
                             \/ p = req.pid /\ i = Len(x.msgs) + 1 /\ c.msgs[i] = m
        BY <1>4
    <2>2. PICK y \in cq[q] : \/ j \in 1..Len(y.msgs) /\ d.msgs[j] = y.msgs[j]
                             \/ q = req.pid /\ j = Len(y.msgs) + 1 /\ d.msgs[j] = m
        BY <1>4
    <2>3. CASE i \in 1..Len(x.msgs) /\ c.msgs[i] = x.msgs[i] /\ j \in 1..Len(y.msgs) /\ d.msgs[j] = y.msgs[j]
        BY <2>3 DEF Separate, InClients
    <2>4. CASE i \in 1..Len(x.msgs) /\ c.msgs[i] = x.msgs[i] /\ d.msgs[j] = m
        BY <1>5, <2>4, Fresh DEF m
    <2>5. CASE j \in 1..Len(y.msgs) /\ d.msgs[j] = y.msgs[j] /\ c.msgs[i] = m
        BY <1>5, <2>5, Fresh DEF m
    <2>6. CASE p = q /\ i = Len(x.msgs) + 1 /\ j = Len(y.msgs) + 1
        BY <2>6 DEF Types, PlaceTypes
    <2>7. QED
        BY <2>1, <2>2, <2>3, <2>4, <2>5, <2>6
<1>10. ASSUME NEW a \in answers' PROVE TakenApart(a)'
    <2>1. TakenApart(a) /\ a \in answers
        BY <1>1 DEF Separate
    <2>2. ASSUME NEW p \in Pid, NEW c \in cq'[p], NEW i \in 1..Len(c.msgs)
          PROVE  Apart(a, c.msgs[i])
        BY <1>4, <1>6, <2>1, Fresh DEF TakenApart, m
    <2>3. \A k \in 1..Len(queues'), i \in Nat : ~IsAnswer(k, i)'
        BY <1>1, <1>3 DEF IsAnswer
    <2>4. QED
        BY <1>1, <2>1, <2>2, <2>3 DEF TakenApart, Apart
<1>11. QED
    BY <1>7, <1>8, <1>9, <1>10 DEF Separate

-----------------------------------------------------------------------------
(* Every step.                                                             *)

LEMMA ServerSeparate ==
    ASSUME Types, Separate, Types', SvStep \/ SvKilled
    PROVE  Separate'
<1> USE DEF clients, history, server, Running
<1>1. CASE SvMsgget \/ SvMqOpen \/ SvTruncate \/ SvPublish \/ SvOpenClient \/ SvKilled
    <2>1. NoNumber /\ answers' = answers /\ cq' = cq
        BY <1>1 DEF NoNumber, SvMsgget, SvMqOpen, SvTruncate, SvPublish, SvOpenClient, SvKilled, Starting
    <2>2. queues' = queues \/ queues' = Append(queues, <<>>)
        BY <1>1 DEF SvMsgget, SvMqOpen, SvTruncate, SvPublish, SvOpenClient, SvKilled
    <2>3. \A k \in 1..Len(queues'), i \in Nat :
              IsAnswer(k, i)' => k \in 1..Len(queues) /\ IsAnswer(k, i) /\ queues'[k][i] = queues[k][i]
        <3>1. CASE queues' = queues
            BY <3>1 DEF IsAnswer
        <3>2. CASE queues' = Append(queues, <<>>)
            <4> SUFFICES ASSUME NEW k \in 1..Len(queues'), NEW i \in Nat, IsAnswer(k, i)'
                         PROVE  k \in 1..Len(queues) /\ IsAnswer(k, i) /\ queues'[k][i] = queues[k][i]
                OBVIOUS
            <4>1. k = Len(queues) + 1 => queues'[k] = <<>>
                BY <3>2 DEF Types, PlaceTypes
            <4>2. k \in 1..Len(queues) /\ queues'[k] = queues[k]
                BY <3>2, <4>1 DEF IsAnswer, Types, PlaceTypes
            <4>3. QED
                BY <4>2 DEF IsAnswer
        <3>3. QED
            BY <2>2, <3>1, <3>2
    <2>4. QED
        BY <2>1, <2>3, Carried
<1>2. CASE SvReceive
    <2>1. PICK k \in 1..Len(queues[mine]) : queues' = [queues EXCEPT ![mine] = RemoveAt(@, k)]
        BY <1>2 DEF SvReceive
    <2>2. NoNumber /\ answers' = answers /\ cq' = cq /\ mine \in 1..Len(queues)
        BY <1>2 DEF NoNumber, SvReceive, Types, ProcessTypes
    <2> DEFINE new == {}
    <2>3. answers' = answers \cup new /\ \A r \in new : FALSE
        BY <2>2
    <2> HIDE DEF new
    <2>4. QED
        BY <2>1, <2>2, <2>3, Taken
<1>3. CASE SvSend
    BY <1>3, SentShared, SentToClient
<1>4. QED
    BY <1>1, <1>2, <1>3 DEF SvStep

LEMMA ClientSeparate ==
    ASSUME Types, Separate, Types', NEW p \in Pid,
           ClReadFile(p) \/ ClCreateQueue(p) \/ ClStep(p) \/ ClKilled(p) \/ Cleanup(p)
    PROVE  Separate'
<1> USE DEF clients, history, server, Running
<1>1. NoNumber
    BY DEF NoNumber, ClReadFile, ClCreateQueue, ClStep, ClOpenServer, ClSend, ClReceive, ClKilled, Cleanup
<1>2. CASE ClReadFile(p) \/ ClCreateQueue(p) \/ ClOpenServer(p) \/ ClKilled(p) \/ Cleanup(p)
    <2>1. answers' = answers /\ queues' = queues
        BY <1>2 DEF ClReadFile, ClCreateQueue, ClOpenServer, ClKilled, Cleanup
    <2>2. \A q \in Pid : \A c \in cq'[q] : c.msgs = <<>> \/ c \in cq[q]
        BY <1>2 DEF ClReadFile, ClCreateQueue, ClOpenServer, ClKilled, Cleanup, Types, PlaceTypes
    <2>3. \A k \in 1..Len(queues'), i \in Nat :
              IsAnswer(k, i)' => k \in 1..Len(queues) /\ IsAnswer(k, i) /\ queues'[k][i] = queues[k][i]
        BY <2>1 DEF IsAnswer
    <2>4. QED
        BY <1>1, <2>1, <2>2, <2>3, Carried
<1>3. CASE ClSend(p)
    <2> DEFINE m == Request(p, len[p])
    <2>1. queues' = [queues EXCEPT ![cid[p]] = Append(@, m)] /\ answers' = answers /\ cq' = cq
        BY <1>3 DEF ClSend, Send
    <2>2. m.kind = "request" /\ queues \in Seq(Seq(InQueue)) /\ cid[p] \in 1..Len(queues)
        BY <1>3 DEF ClSend, Request, Types, PlaceTypes, ProcessTypes
    <2> HIDE DEF m
    <2>3. \A k \in 1..Len(queues'), i \in Nat :
              IsAnswer(k, i)' => k \in 1..Len(queues) /\ IsAnswer(k, i) /\ queues'[k][i] = queues[k][i]
        BY <2>1, <2>2 DEF IsAnswer
    <2>4. QED
        BY <1>1, <2>1, <2>3, Carried
<1>4. CASE ClReceive(p) /\ Sysv
    <2>1. PICK k \in 1..Len(queues[cid[p]]) :
              /\ First(k, AnswersIn(queues[cid[p]], p)) /\ Received(p, queues[cid[p]][k])
              /\ queues' = [queues EXCEPT ![cid[p]] = RemoveAt(@, k)]
        BY <1>4 DEF ClReceive
    <2>2. cq' = cq /\ cid[p] \in 1..Len(queues)
        BY <1>4 DEF ClReceive, Types, ProcessTypes
    <2>3. IsAnswer(cid[p], k)
        BY <2>1, <2>2 DEF IsAnswer, First, AnswersIn
    <2> DEFINE r == [pid |-> p, run |-> runs[p], asked |-> len[p], era |-> queues[cid[p]][k].era,
                     from |-> queues[cid[p]][k].from, len |-> queues[cid[p]][k].len]
           new == {r}
    <2>4. answers' = answers \cup new
        BY <2>1 DEF Received
    <2>5. \A s, t \in new : s = t
        OBVIOUS
    <2>6. \A t \in new : /\ IsAnswer(cid[p], k) /\ t.era = queues[cid[p]][k].era
                          /\ t.from = queues[cid[p]][k].from /\ t.len = queues[cid[p]][k].len
        BY <2>3
    <2> HIDE DEF r, new
    <2>7. k \in 1..Len(queues[cid[p]]) /\ queues' = [queues EXCEPT ![cid[p]] = RemoveAt(@, k)]
        BY <2>1
    <2>8. QED
        BY <1>1, <2>2, <2>4, <2>5, <2>6, <2>7, Taken
<1>5. CASE ClReceive(p) /\ ~Sysv
    <2>1. PICK c \in cq[p] : c.msgs # <<>> /\ Received(p, Head(c.msgs))
        BY <1>5 DEF ClReceive
    <2>2. cq' = [cq EXCEPT ![p] = {}] /\ queues' = queues
        BY <1>5 DEF ClReceive
    <2> DEFINE r == [pid |-> p, run |-> runs[p], asked |-> len[p], era |-> Head(c.msgs).era,
                     from |-> Head(c.msgs).from, len |-> Head(c.msgs).len]
    <2>3. /\ answers' = answers \cup {r} /\ r.era = Head(c.msgs).era
          /\ r.from = Head(c.msgs).from /\ r.len = Head(c.msgs).len
        BY <2>1 DEF Received
    <2> HIDE DEF r
    <2>4. QED
        BY <1>1, <2>1, <2>2, <2>3, TakenFromClient
<1>6. QED
    BY <1>2, <1>3, <1>4, <1>5 DEF ClStep

LEMMA NextInv == IInv /\ [Next]_vars => IInv'
<1> SUFFICES ASSUME IInv, [Next]_vars PROVE IInv'
    OBVIOUS
<1> USE DEF IInv
<1>1. CASE SvStep \/ SvKilled
    BY <1>1, ServerTypes, ServerSeparate
<1>2. ASSUME NEW p \in Pid, ClReadFile(p) \/ ClCreateQueue(p) \/ ClStep(p) \/ ClKilled(p) \/ Cleanup(p)
      PROVE  IInv'
    BY <1>2, ClientTypes, ClientSeparate
<1>3. CASE UNCHANGED vars
    <2>1. Types'
        BY <1>3 DEF vars, server, clients, history, Types, PlaceTypes, ProcessTypes, InQueue, Sysv
    <2>2. NoNumber /\ queues' = queues /\ cq' = cq /\ answers' = answers
        BY <1>3 DEF vars, server, history, NoNumber, Running
    <2>3. \A k \in 1..Len(queues'), i \in Nat :
              IsAnswer(k, i)' => k \in 1..Len(queues) /\ IsAnswer(k, i) /\ queues'[k][i] = queues[k][i]
        BY <2>2 DEF IsAnswer
    <2>4. QED
        BY <2>1, <2>2, <2>3, Carried
<1>4. QED
    BY <1>1, <1>2, <1>3 DEF Next

\* No number reaches two clients of one server process, in either program, for
\* any clients, kills, leftovers and starts.
THEOREM Uniqueness == Spec => []NoNumberTwice
<1>1. Init => IInv
    <2> SUFFICES ASSUME Init PROVE Separate
        BY InitTypes DEF IInv
    <2>1. QED
        BY DEF Init, Separate, AllPast, InQueues, InClients, IsAnswer
<1>2. IInv => NoNumberTwice
    <2> SUFFICES ASSUME IInv, NEW a \in answers, NEW b \in answers, a # b, a.era = b.era
                 PROVE  Numbers(a) \cap Numbers(b) = {}
        BY DEF NoNumberTwice
    <2>1. Apart(a, b)
        BY DEF IInv, Separate, TakenApart
    <2>2. /\ a.from \in Nat /\ a.len \in Nat
          /\ b.from \in Nat /\ b.len \in Nat
        BY MsgSeqnumAssumption DEF IInv, Types, PlaceTypes
    <2>3. QED
        BY <2>1, <2>2 DEF Apart, Numbers
<1>3. QED
    BY <1>1, <1>2, NextInv, PTL DEF Spec

-----------------------------------------------------------------------------
(* Answers fit requests: a client that was not killed has one request or   *)
(* one answer at a time, wherever it is.                                   *)

Holds(p, k, i) == i \in 1..Len(queues[k]) /\ queues[k][i].pid = p
Handled(p) == spc \in {"open", "send"} /\ req.pid = p
Mail(p) == \E c \in cq[p] : c.msgs # <<>>

OnePlace(p) ==
    \A k, l \in 1..Len(queues), i, j \in Nat : Holds(p, k, i) /\ Holds(p, l, j) => k = l /\ i = j
Single(p) ==
    /\ OnePlace(p)
    /\ \A k \in 1..Len(queues), i \in Nat : Holds(p, k, i) =>
          ~Handled(p) /\ ~Mail(p) /\ cpc[p] = "wait" /\ queues[k][i].len = len[p]
    /\ Handled(p) => ~Mail(p) /\ cpc[p] = "wait" /\ req.len = len[p]
    /\ Mail(p) => cpc[p] = "wait"
    /\ \A c \in cq[p] : \A i \in 1..Len(c.msgs) : i = 1 /\ c.msgs[i].len = len[p]

FitInv == AnswerFitsRequest /\ \A p \in Pid \ killed : Single(p)

\* A step that brings a client nothing new.
LEMMA NothingNew ==
    ASSUME NEW p \in Pid, Single(p), OnePlace(p)',
           \A k \in 1..Len(queues'), i \in Nat : Holds(p, k, i)' =>
               \E l \in 1..Len(queues), j \in Nat : Holds(p, l, j) /\ queues'[k][i] = queues[l][j],
           Handled(p)' => Handled(p) /\ req' = req,
           \A c \in cq'[p] : c \in cq[p] \/ c.msgs = <<>>,
           cpc'[p] = cpc[p], len'[p] = len[p]
    PROVE  Single(p)'
<1>1. Mail(p)' => Mail(p)
    BY DEF Mail
<1>2. \A k \in 1..Len(queues'), i \in Nat : Holds(p, k, i)' =>
          ~Handled(p)' /\ ~Mail(p)' /\ cpc'[p] = "wait" /\ queues'[k][i].len = len'[p]
    BY <1>1 DEF Single
<1>3. Handled(p)' => ~Mail(p)' /\ cpc'[p] = "wait" /\ req'.len = len'[p]
    BY <1>1 DEF Single
<1>4. \A c \in cq'[p] : \A i \in 1..Len(c.msgs) : i = 1 /\ c.msgs[i].len = len'[p]
    BY DEF Single
<1>5. Mail(p)' => cpc'[p] = "wait"
    BY <1>1 DEF Single
<1>6. QED
    BY <1>2, <1>3, <1>4, <1>5 DEF Single

\* A client with nothing under way after a step.
LEMMA NothingHeld ==
    ASSUME NEW p \in Pid, \A k \in 1..Len(queues'), i \in Nat : ~Holds(p, k, i)',
           ~Handled(p)', \A c \in cq'[p] : c.msgs = <<>>
    PROVE  Single(p)'
BY DEF Single, OnePlace, Mail

\* A client that is not waiting has nothing under way before it either.
LEMMA NotWaiting ==
    ASSUME NEW p \in Pid, Single(p), cpc[p] # "wait"
    PROVE  /\ \A k \in 1..Len(queues), i \in Nat : ~Holds(p, k, i)
           /\ ~Handled(p) /\ \A c \in cq[p] : c.msgs = <<>>
BY DEF Single, Mail

\* Where the messages of a queue are after one was taken.
LEMMA TakenPlaces ==
    ASSUME Types, NEW k0 \in 1..Len(queues), NEW i0 \in 1..Len(queues[k0]),
           queues' = [queues EXCEPT ![k0] = RemoveAt(@, i0)],
           NEW p, NEW k \in 1..Len(queues'), NEW i \in Nat, Holds(p, k, i)'
    PROVE  LET j == IF k = k0 THEN Shift(i0, i) ELSE i
           IN  /\ k \in 1..Len(queues) /\ j \in Nat
               /\ Holds(p, k, j) /\ queues'[k][i] = queues[k][j] /\ ~(k = k0 /\ j = i0)
<1>1. queues[k0] \in Seq(InQueue) /\ queues \in Seq(Seq(InQueue)) /\ k \in 1..Len(queues)
    BY DEF Types, PlaceTypes
<1>2. CASE k = k0
    <2>1. queues'[k] = RemoveAt(queues[k0], i0) /\ i \in 1..Len(queues'[k])
        BY <1>1, <1>2 DEF Holds
    <2>2. Len(RemoveAt(queues[k0], i0)) = Len(queues[k0]) - 1
        BY <1>1, RemoveFacts
    <2>3. i \in 1..(Len(queues[k0]) - 1)
        BY <2>1, <2>2
    <2>4. queues'[k][i] = queues[k0][Shift(i0, i)]
        BY <1>1, <2>1, <2>3, RemoveFacts
    <2>5. Shift(i0, i) \in 1..Len(queues[k0]) /\ Shift(i0, i) # i0
        BY <1>1, <2>3 DEF Shift
    <2>6. QED
        BY <1>1, <1>2, <2>3, <2>4, <2>5 DEF Holds
<1>3. CASE k # k0
    BY <1>1, <1>3 DEF Holds
<1>4. QED
    BY <1>2, <1>3

\* Taking a message from a queue leaves at most one of each client, and of the
\* client it was for none.
LEMMA TakenSingle ==
    ASSUME Types, NEW k0 \in 1..Len(queues), NEW i0 \in 1..Len(queues[k0]),
           queues' = [queues EXCEPT ![k0] = RemoveAt(@, i0)],
           NEW p \in Pid, Single(p)
    PROVE  /\ OnePlace(p)'
           /\ \A k \in 1..Len(queues'), i \in Nat : Holds(p, k, i)' =>
                 \E l \in 1..Len(queues), j \in Nat : Holds(p, l, j) /\ queues'[k][i] = queues[l][j]
           /\ queues[k0][i0].pid = p => \A k \in 1..Len(queues'), i \in Nat : ~Holds(p, k, i)'
<1> DEFINE Old(k, i) == IF k = k0 THEN Shift(i0, i) ELSE i
<1>1. ASSUME NEW k \in 1..Len(queues'), NEW i \in Nat, Holds(p, k, i)'
      PROVE  /\ k \in 1..Len(queues) /\ Old(k, i) \in Nat
             /\ Holds(p, k, Old(k, i)) /\ queues'[k][i] = queues[k][Old(k, i)]
             /\ ~(k = k0 /\ Old(k, i) = i0)
    BY <1>1, TakenPlaces
<1>2. \A k, i, j \in Nat : Old(k, i) = Old(k, j) => i = j
    BY DEF Shift
<1> HIDE DEF Old
<1>3. OnePlace(p)'
    <2> SUFFICES ASSUME NEW k \in 1..Len(queues'), NEW l \in 1..Len(queues'), NEW i \in Nat, NEW j \in Nat,
                        Holds(p, k, i)', Holds(p, l, j)'
                 PROVE  k = l /\ i = j
        BY DEF OnePlace
    <2>1. k = l /\ Old(k, i) = Old(l, j)
        BY <1>1 DEF Single, OnePlace
    <2>2. QED
        BY <1>2, <2>1
<1>4. Holds(queues[k0][i0].pid, k0, i0)
    BY DEF Holds
<1>5. queues[k0][i0].pid = p => \A k \in 1..Len(queues'), i \in Nat : ~Holds(p, k, i)'
    BY <1>1, <1>4 DEF Single, OnePlace
<1>6. QED
    BY <1>1, <1>3, <1>5

\* Sending a message adds one place, of the client it is from or for.
LEMMA SentSingle ==
    ASSUME Types, NEW k0 \in 1..Len(queues), NEW m \in InQueue,
           queues' = [queues EXCEPT ![k0] = Append(@, m)],
           NEW p \in Pid, Single(p)
    PROVE  /\ m.pid # p =>
                 /\ OnePlace(p)'
                 /\ \A k \in 1..Len(queues'), i \in Nat : Holds(p, k, i)' =>
                       \E l \in 1..Len(queues), j \in Nat : Holds(p, l, j) /\ queues'[k][i] = queues[l][j]
           /\ (\A k \in 1..Len(queues), i \in Nat : ~Holds(p, k, i)) =>
                 /\ OnePlace(p)'
                 /\ \A k \in 1..Len(queues'), i \in Nat : Holds(p, k, i)' => queues'[k][i] = m
<1>1. ASSUME NEW k \in 1..Len(queues'), NEW i \in Nat, Holds(p, k, i)'
      PROVE  /\ k \in 1..Len(queues)
             /\ \/ Holds(p, k, i) /\ queues'[k][i] = queues[k][i]
                \/ k = k0 /\ i = Len(queues[k0]) + 1 /\ queues'[k][i] = m /\ m.pid = p
    <2>1. queues[k0] \in Seq(InQueue) /\ queues \in Seq(Seq(InQueue))
        BY DEF Types, PlaceTypes
    <2>2. QED
        BY <1>1, <2>1 DEF Holds
<1>2. CASE m.pid # p
    <2>1. \A k \in 1..Len(queues'), i \in Nat : Holds(p, k, i)' =>
              k \in 1..Len(queues) /\ Holds(p, k, i) /\ queues'[k][i] = queues[k][i]
        BY <1>1, <1>2
    <2>2. OnePlace(p)'
        BY <2>1 DEF Single, OnePlace
    <2>3. QED
        BY <2>1, <2>2, <1>1
<1>3. CASE \A k \in 1..Len(queues), i \in Nat : ~Holds(p, k, i)
    <2>1. \A k \in 1..Len(queues'), i \in Nat : Holds(p, k, i)' =>
              k = k0 /\ i = Len(queues[k0]) + 1 /\ queues'[k][i] = m
        BY <1>1, <1>3
    <2>2. OnePlace(p)'
        BY <2>1 DEF OnePlace
    <2>3. ASSUME m.pid # p, NEW k \in 1..Len(queues'), NEW i \in Nat PROVE ~Holds(p, k, i)'
        BY <1>1, <1>3, <2>3
    <2>4. QED
        BY <2>1, <2>2, <2>3
<1>4. QED
    BY <1>2, <1>3

\* A step of the server that neither takes a request nor sends an answer.
LEMMA QuietFit ==
    ASSUME Types, Types', FitInv,
           SvMsgget \/ SvMqOpen \/ SvTruncate \/ SvPublish \/ SvOpenClient \/ SvKilled
    PROVE  FitInv'
<1> USE DEF clients, history, server
<1>1. answers' = answers /\ killed' = killed /\ cq' = cq /\ cpc' = cpc /\ len' = len
    BY DEF SvMsgget, SvMqOpen, SvTruncate, SvPublish, SvOpenClient, SvKilled
<1>2. queues' = queues \/ queues' = Append(queues, <<>>)
    BY DEF SvMsgget, SvMqOpen, SvTruncate, SvPublish, SvOpenClient, SvKilled
<1>3. \A p : Handled(p)' => Handled(p) /\ req' = req
    BY DEF Handled, SvMsgget, SvMqOpen, SvTruncate, SvPublish, SvOpenClient, SvKilled, Starting
<1>4. ASSUME NEW p, NEW k \in 1..Len(queues'), NEW i \in Nat, Holds(p, k, i)'
      PROVE  k \in 1..Len(queues) /\ Holds(p, k, i) /\ queues'[k][i] = queues[k][i]
    <2>1. CASE queues' = queues
        BY <1>4, <2>1 DEF Holds
    <2>2. CASE queues' = Append(queues, <<>>)
        <3>1. k = Len(queues) + 1 => queues'[k] = <<>>
            BY <2>2 DEF Types, PlaceTypes
        <3>2. k \in 1..Len(queues) /\ queues'[k] = queues[k]
            BY <1>4, <2>2, <3>1 DEF Holds, Types, PlaceTypes
        <3>3. QED
            BY <1>4, <3>2 DEF Holds
    <2>3. QED
        BY <1>2, <2>1, <2>2
<1>5. ASSUME NEW p \in Pid \ killed PROVE Single(p)'
    <2>1. Single(p)
        BY DEF FitInv
    <2>2. OnePlace(p)'
        BY <1>4, <2>1 DEF Single, OnePlace
    <2>3. \A k \in 1..Len(queues'), i \in Nat : Holds(p, k, i)' =>
              \E l \in 1..Len(queues), j \in Nat : Holds(p, l, j) /\ queues'[k][i] = queues[l][j]
        BY <1>4
    <2>4. QED
        BY <1>1, <1>3, <2>1, <2>2, <2>3, NothingNew
<1>6. AnswerFitsRequest'
    BY <1>1 DEF FitInv, AnswerFitsRequest
<1>7. QED
    BY <1>1, <1>5, <1>6 DEF FitInv

\* A request that is taken from the queue is the server's.
LEMMA ReceiveFit ==
    ASSUME Types, Types', FitInv, SvReceive
    PROVE  FitInv'
<1>1. PICK k0 \in 1..Len(queues[mine]) :
          /\ req' = queues[mine][k0]
          /\ queues' = [queues EXCEPT ![mine] = RemoveAt(@, k0)]
    BY DEF SvReceive
<1>2. /\ mine \in 1..Len(queues) /\ spc = "receive" /\ spc' \in {"open", "send"}
      /\ answers' = answers /\ killed' = killed /\ cq' = cq /\ cpc' = cpc /\ len' = len
    BY DEF SvReceive, Types, ProcessTypes, clients, history
<1>3. ASSUME NEW p \in Pid \ killed PROVE Single(p)'
    <2>1. Single(p)
        BY DEF FitInv
    <2>2. /\ OnePlace(p)'
          /\ \A k \in 1..Len(queues'), i \in Nat : Holds(p, k, i)' =>
                \E l \in 1..Len(queues), j \in Nat : Holds(p, l, j) /\ queues'[k][i] = queues[l][j]
          /\ queues[mine][k0].pid = p => \A k \in 1..Len(queues'), i \in Nat : ~Holds(p, k, i)'
        BY <1>1, <1>2, <2>1, TakenSingle
    <2>3. CASE req'.pid = p
        <3>1. Holds(p, mine, k0)
            BY <1>1, <2>3 DEF Holds
        <3>2. ~Mail(p) /\ cpc[p] = "wait" /\ queues[mine][k0].len = len[p]
            BY <1>2, <2>1, <3>1 DEF Single, Types, PlaceTypes
        <3>3. ~Mail(p)' /\ cpc'[p] = "wait" /\ req'.len = len'[p]
            BY <1>1, <1>2, <3>2 DEF Mail
        <3>4. \A c \in cq'[p] : c.msgs = <<>>
            BY <3>3 DEF Mail
        <3>5. \A k \in 1..Len(queues'), i \in Nat : ~Holds(p, k, i)'
            BY <1>1, <2>2, <2>3
        <3>6. \A c \in cq'[p] : \A i \in 1..Len(c.msgs) : i = 1 /\ c.msgs[i].len = len'[p]
            BY <1>2, <2>1 DEF Single
        <3>7. QED
            BY <2>2, <3>3, <3>5, <3>6 DEF Single
    <2>4. CASE req'.pid # p
        <3>1. ~Handled(p)'
            BY <2>4 DEF Handled
        <3>2. QED
            BY <1>2, <2>1, <2>2, <3>1, NothingNew
    <2>5. QED
        BY <2>3, <2>4
<1>4. AnswerFitsRequest'
    BY <1>2 DEF FitInv, AnswerFitsRequest
<1>5. QED
    BY <1>2, <1>3, <1>4 DEF FitInv

\* The answer takes the place of the request it answers.
LEMMA SendFit ==
    ASSUME Types, Types', FitInv, SvSend
    PROVE  FitInv'
<1> DEFINE m == Answer(req.pid, req.len, seqNum)
<1>1. /\ spc = "send" /\ spc' = "receive" /\ mine \in 1..Len(queues)
      /\ answers' = answers /\ killed' = killed /\ cpc' = cpc /\ len' = len /\ SendAnswer(m)
    BY DEF SvSend, Types, ProcessTypes, clients, history
<1>2. m \in Answers /\ m.pid = req.pid /\ m.len = req.len /\ req.pid \in Pid
    BY <1>1, AnswerType DEF Answer
<1> HIDE DEF m
<1>3. ASSUME NEW p \in Pid \ killed PROVE Single(p)'
    <2>1. Single(p) /\ ~Handled(p)'
        BY <1>1 DEF FitInv, Handled
    <2>2. CASE Sysv
        <3>1. queues' = [queues EXCEPT ![mine] = Append(@, m)] /\ cq' = cq /\ m \in InQueue
            BY <1>1, <1>2, <2>2 DEF SendAnswer, Send, InQueue
        <3>2. /\ m.pid # p =>
                    /\ OnePlace(p)'
                    /\ \A k \in 1..Len(queues'), i \in Nat : Holds(p, k, i)' =>
                          \E l \in 1..Len(queues), j \in Nat : Holds(p, l, j) /\ queues'[k][i] = queues[l][j]
              /\ (\A k \in 1..Len(queues), i \in Nat : ~Holds(p, k, i)) =>
                    /\ OnePlace(p)'
                    /\ \A k \in 1..Len(queues'), i \in Nat : Holds(p, k, i)' => queues'[k][i] = m
            BY <1>1, <2>1, <3>1, SentSingle
        <3>3. CASE req.pid # p
            BY <1>1, <1>2, <2>1, <3>1, <3>2, <3>3, NothingNew
        <3>4. CASE req.pid = p
            <4>1. Handled(p)
                BY <1>1, <3>4 DEF Handled
            <4>2. /\ ~Mail(p) /\ cpc[p] = "wait" /\ req.len = len[p]
                  /\ \A k \in 1..Len(queues), i \in Nat : ~Holds(p, k, i)
                BY <2>1, <4>1 DEF Single
            <4>3. /\ OnePlace(p)'
                  /\ \A k \in 1..Len(queues'), i \in Nat : Holds(p, k, i)' => queues'[k][i] = m
                BY <3>2, <4>2
            <4>4. ~Mail(p)' /\ cpc'[p] = "wait" /\ m.len = len'[p]
                BY <1>1, <1>2, <3>1, <4>2 DEF Mail
            <4>5. \A c \in cq'[p] : \A i \in 1..Len(c.msgs) : i = 1 /\ c.msgs[i].len = len'[p]
                BY <1>1, <2>1, <3>1 DEF Single
            <4>6. QED
                BY <2>1, <4>3, <4>4, <4>5 DEF Single
        <3>5. QED
            BY <3>3, <3>4
    <2>3. CASE ~Sysv
        <3>1. /\ queues' = queues
              /\ cq' = [cq EXCEPT ![req.pid] =
                    {IF c.run = cfd THEN [run |-> cfd, msgs |-> Append(c.msgs, m)] ELSE c : c \in @}]
            BY <1>1, <2>3 DEF SendAnswer
        <3>2. \A k \in 1..Len(queues'), i \in Nat : Holds(p, k, i)' =>
                  k \in 1..Len(queues) /\ Holds(p, k, i) /\ queues'[k][i] = queues[k][i]
            BY <3>1 DEF Holds
        <3>3. OnePlace(p)'
            BY <2>1, <3>1, <3>2 DEF Single, OnePlace
        <3>4. CASE req.pid # p
            <4>1. cq'[p] = cq[p]
                BY <3>1, <3>4 DEF Types, PlaceTypes
            <4>2. QED
                BY <1>1, <2>1, <3>2, <3>3, <4>1, NothingNew
        <3>5. CASE req.pid = p
            <4>1. Handled(p)
                BY <1>1, <3>5 DEF Handled
            <4>2. /\ ~Mail(p) /\ cpc[p] = "wait" /\ req.len = len[p]
                  /\ \A k \in 1..Len(queues), i \in Nat : ~Holds(p, k, i)
                BY <2>1, <4>1 DEF Single
            <4>3. \A k \in 1..Len(queues'), i \in Nat : ~Holds(p, k, i)'
                BY <3>2, <4>2
            <4>4. ASSUME NEW c \in cq'[p]
                  PROVE  \A i \in 1..Len(c.msgs) : i = 1 /\ c.msgs[i].len = len'[p]
                <5>1. PICK d \in cq[p] :
                          c = IF d.run = cfd THEN [run |-> cfd, msgs |-> Append(d.msgs, m)] ELSE d
                    BY <1>2, <3>1, <3>5 DEF Types, PlaceTypes
                <5>2. d.msgs = <<>>
                    BY <4>2 DEF Mail
                <5>3. c.msgs = <<>> \/ c.msgs = <<m>>
                    <6>1. Append(d.msgs, m) = <<m>>
                        BY <5>2
                    <6>2. CASE d.run = cfd
                        <7>1. c = [run |-> cfd, msgs |-> <<m>>]
                            BY <5>1, <6>1, <6>2
                        <7>2. QED
                            BY <7>1
                    <6>3. CASE d.run # cfd
                        BY <5>1, <5>2, <6>3
                    <6>4. QED
                        BY <6>2, <6>3
                <5>4. m.len = len'[p]
                    BY <1>1, <1>2, <4>2
                <5>5. ASSUME NEW i \in 1..Len(c.msgs) PROVE i = 1 /\ c.msgs[i] = m
                    <6>1. CASE c.msgs = <<>>
                        <7>1. Len(c.msgs) = 0
                            BY <6>1
                        <7>2. QED
                            BY <7>1
                    <6>2. CASE c.msgs = <<m>>
                        <7>1. Len(c.msgs) = 1 /\ c.msgs[1] = m
                            BY <6>2
                        <7>2. QED
                            BY <7>1
                    <6>3. QED
                        BY <5>3, <6>1, <6>2
                <5>6. QED
                    BY <5>4, <5>5
            <4>5. cpc'[p] = "wait"
                BY <1>1, <4>2
            <4>6. QED
                BY <2>1, <3>3, <4>3, <4>4, <4>5 DEF Single
        <3>6. QED
            BY <3>4, <3>5
    <2>4. QED
        BY <2>2, <2>3
<1>4. AnswerFitsRequest'
    BY <1>1 DEF FitInv, AnswerFitsRequest
<1>5. QED
    BY <1>1, <1>3, <1>4 DEF FitInv

\* A step of a client that neither sends nor receives, and a removed queue.
LEMMA ClientQuietFit ==
    ASSUME Types, FitInv, NEW p \in Pid,
           ClReadFile(p) \/ ClCreateQueue(p) \/ ClOpenServer(p) \/ ClKilled(p) \/ Cleanup(p)
    PROVE  FitInv'
<1> USE DEF clients, history, server, Goto, Begin
<1>1. answers' = answers /\ queues' = queues /\ spc' = spc /\ req' = req /\ killed \subseteq killed'
    BY DEF ClReadFile, ClCreateQueue, ClOpenServer, ClKilled, Cleanup
<1>2. \A q \in Pid \ {p} : cq'[q] = cq[q] /\ cpc'[q] = cpc[q] /\ len'[q] = len[q]
    BY DEF ClReadFile, ClCreateQueue, ClOpenServer, ClKilled, Cleanup, Types, PlaceTypes, ProcessTypes
<1>3. \A c \in cq'[p] : c.msgs = <<>> \/ c \in cq[p]
    BY DEF ClReadFile, ClCreateQueue, ClOpenServer, ClKilled, Cleanup, Types, PlaceTypes
<1>4. \A q \in Pid : Handled(q)' = Handled(q) /\ \A k \in 1..Len(queues'), i \in Nat :
          Holds(q, k, i)' = Holds(q, k, i)
    BY <1>1 DEF Handled, Holds
<1>5. ASSUME NEW q \in Pid \ {p}, Single(q) PROVE Single(q)'
    <2>1. OnePlace(q)'
        BY <1>1, <1>4, <1>5 DEF Single, OnePlace
    <2>2. \A k \in 1..Len(queues'), i \in Nat : Holds(q, k, i)' =>
              \E l \in 1..Len(queues), j \in Nat : Holds(q, l, j) /\ queues'[k][i] = queues[l][j]
        BY <1>1, <1>4
    <2>3. QED
        BY <1>1, <1>2, <1>4, <1>5, <2>1, <2>2, NothingNew
<1>6. ASSUME Single(p), cpc[p] \in {"idle", "open"}
      PROVE  Single(p)'
    <2>1. /\ \A k \in 1..Len(queues), i \in Nat : ~Holds(p, k, i)
          /\ ~Handled(p) /\ \A c \in cq[p] : c.msgs = <<>>
        BY <1>6, NotWaiting
    <2>2. \A k \in 1..Len(queues'), i \in Nat : ~Holds(p, k, i)'
        BY <1>1, <1>4, <2>1
    <2>3. ~Handled(p)' /\ \A c \in cq'[p] : c.msgs = <<>>
        BY <1>3, <1>4, <2>1
    <2>4. QED
        BY <2>2, <2>3, NothingHeld
<1>7. AnswerFitsRequest'
    BY <1>1 DEF FitInv, AnswerFitsRequest
<1>8. p \in killed' \/ cpc[p] \in {"idle", "open"}
    BY DEF ClReadFile, ClCreateQueue, ClOpenServer, ClKilled, Cleanup
<1>9. ASSUME NEW q \in Pid \ killed' PROVE Single(q)'
    <2>1. Single(q)
        BY <1>1 DEF FitInv
    <2>2. QED
        BY <1>5, <1>6, <1>8, <2>1
<1>10. QED
    BY <1>7, <1>9 DEF FitInv

\* A request is sent by a client that has nothing under way.
LEMMA ClSendFit ==
    ASSUME Types, FitInv, NEW p \in Pid, ClSend(p)
    PROVE  FitInv'
<1>1. /\ queues' = [queues EXCEPT ![cid[p]] = Append(@, Request(p, len[p]))]
      /\ cpc[p] = "send" /\ cpc' = [cpc EXCEPT ![p] = "wait"] /\ cid[p] \in 1..Len(queues)
      /\ answers' = answers /\ killed' = killed /\ cq' = cq /\ len' = len /\ spc' = spc /\ req' = req
    BY DEF ClSend, Send, Goto, server, history, Types, ProcessTypes
<1>2. PICK m \in InQueue, k0 \in 1..Len(queues) :
          m.pid = p /\ m.len = len[p] /\ queues' = [queues EXCEPT ![k0] = Append(@, m)]
    <2>1. Request(p, len[p]) \in InQueue /\ Request(p, len[p]).pid = p /\ Request(p, len[p]).len = len[p]
        BY <1>1 DEF Request, Requests, InQueue, Types, ProcessTypes
    <2>2. QED
        BY <1>1, <2>1
<1>3. ASSUME NEW q \in Pid \ killed PROVE Single(q)'
    <2>1. Single(q)
        BY DEF FitInv
    <2>2. /\ m.pid # q =>
                /\ OnePlace(q)'
                /\ \A k \in 1..Len(queues'), i \in Nat : Holds(q, k, i)' =>
                      \E l \in 1..Len(queues), j \in Nat : Holds(q, l, j) /\ queues'[k][i] = queues[l][j]
          /\ (\A k \in 1..Len(queues), i \in Nat : ~Holds(q, k, i)) =>
                /\ OnePlace(q)'
                /\ \A k \in 1..Len(queues'), i \in Nat : Holds(q, k, i)' => queues'[k][i] = m
        BY <1>1, <1>2, <2>1, SentSingle
    <2>3. Handled(q)' = Handled(q) /\ Mail(q)' = Mail(q)
        BY <1>1 DEF Handled, Mail
    <2>4. CASE q # p
        <3>1. cpc'[q] = cpc[q]
            BY <1>1, <2>4 DEF Types, ProcessTypes
        <3>2. QED
            BY <1>1, <1>2, <2>1, <2>2, <2>3, <2>4, <3>1, NothingNew
    <2>5. CASE q = p
        <3>1. /\ \A k \in 1..Len(queues), i \in Nat : ~Holds(p, k, i)
              /\ ~Handled(p) /\ \A c \in cq[p] : c.msgs = <<>>
            BY <1>1, <2>1, <2>5, NotWaiting
        <3>2. ~Handled(p)' /\ ~Mail(p)' /\ cpc'[p] = "wait" /\ len'[p] = len[p]
            BY <1>1, <2>3, <2>5, <3>1 DEF Mail, Types, ProcessTypes
        <3>3. /\ OnePlace(p)'
              /\ \A k \in 1..Len(queues'), i \in Nat : Holds(p, k, i)' => queues'[k][i] = m
            BY <2>2, <2>5, <3>1
        <3>4. \A c \in cq'[p] : \A i \in 1..Len(c.msgs) : i = 1 /\ c.msgs[i].len = len'[p]
            BY <1>1, <2>1, <2>5 DEF Single
        <3>5. QED
            BY <1>2, <2>5, <3>2, <3>3, <3>4 DEF Single
    <2>6. QED
        BY <2>4, <2>5
<1>4. AnswerFitsRequest'
    BY <1>1 DEF FitInv, AnswerFitsRequest
<1>5. QED
    BY <1>1, <1>3, <1>4 DEF FitInv

\* The one message of a waiting client is the answer to its request.
LEMMA ClReceiveFit ==
    ASSUME Types, FitInv, NEW p \in Pid, ClReceive(p)
    PROVE  FitInv'
<1>1. /\ cpc[p] = "wait" /\ cpc' = [cpc EXCEPT ![p] = "idle"]
      /\ killed' = killed /\ len' = len /\ spc' = spc /\ req' = req
    BY DEF ClReceive, Goto, server
<1>2. \A q : Handled(q)' = Handled(q)
    BY <1>1 DEF Handled
<1>3. \A q \in Pid \ {p} : cpc'[q] = cpc[q]
    BY <1>1 DEF Types, ProcessTypes
<1>4. CASE Sysv
    <2>1. PICK i0 \in 1..Len(queues[cid[p]]) :
              /\ First(i0, AnswersIn(queues[cid[p]], p)) /\ Received(p, queues[cid[p]][i0])
              /\ queues' = [queues EXCEPT ![cid[p]] = RemoveAt(@, i0)]
        BY <1>4 DEF ClReceive
    <2>2. cid[p] \in 1..Len(queues) /\ cq' = cq
        BY <1>1, <1>4 DEF ClReceive, Types, ProcessTypes
    <2>3. PICK k0 \in 1..Len(queues) : k0 = cid[p]
        BY <2>2
    <2>4. queues' = [queues EXCEPT ![k0] = RemoveAt(@, i0)] /\ i0 \in 1..Len(queues[k0])
        BY <2>1, <2>3
    <2>5. Holds(p, k0, i0)
        BY <2>1, <2>3 DEF Holds, First, AnswersIn
    <2>6. ASSUME NEW q \in Pid \ killed PROVE Single(q)'
        <3>1. Single(q)
            BY DEF FitInv
        <3>2. /\ OnePlace(q)'
              /\ \A k \in 1..Len(queues'), i \in Nat : Holds(q, k, i)' =>
                    \E l \in 1..Len(queues), j \in Nat : Holds(q, l, j) /\ queues'[k][i] = queues[l][j]
              /\ queues[k0][i0].pid = q => \A k \in 1..Len(queues'), i \in Nat : ~Holds(q, k, i)'
            BY <2>4, <3>1, TakenSingle
        <3>3. CASE q # p
            BY <1>1, <1>2, <1>3, <2>2, <3>1, <3>2, <3>3, NothingNew
        <3>4. CASE q = p
            <4>1. ~Handled(p) /\ ~Mail(p)
                BY <2>4, <2>5, <3>1, <3>4 DEF Single
            <4>2. ~Handled(p)' /\ \A c \in cq'[p] : c.msgs = <<>>
                BY <1>2, <2>2, <4>1 DEF Mail
            <4>3. \A k \in 1..Len(queues'), i \in Nat : ~Holds(p, k, i)'
                BY <2>5, <3>2, <3>4 DEF Holds
            <4>4. QED
                BY <3>4, <4>2, <4>3, NothingHeld
        <3>5. QED
            BY <3>3, <3>4
    <2>7. p \notin killed => queues[k0][i0].len = len[p]
        BY <2>4, <2>5 DEF FitInv, Single
    <2>8. AnswerFitsRequest'
        BY <1>1, <2>1, <2>3, <2>7 DEF FitInv, AnswerFitsRequest, Received
    <2>9. QED
        BY <1>1, <2>6, <2>8 DEF FitInv
<1>5. CASE ~Sysv
    <2>1. PICK c \in cq[p] : c.msgs # <<>> /\ Received(p, Head(c.msgs))
        BY <1>5 DEF ClReceive
    <2>2. cq' = [cq EXCEPT ![p] = {}] /\ queues' = queues
        BY <1>5 DEF ClReceive
    <2>3. \A q \in Pid, k \in 1..Len(queues'), i \in Nat : Holds(q, k, i)' = Holds(q, k, i)
        BY <2>2 DEF Holds
    <2>4. Mail(p)
        BY <2>1 DEF Mail
    <2>5. ASSUME NEW q \in Pid \ killed PROVE Single(q)'
        <3>1. Single(q)
            BY DEF FitInv
        <3>2. CASE q # p
            <4>1. cq'[q] = cq[q]
                BY <2>2, <3>2 DEF Types, PlaceTypes
            <4>2. OnePlace(q)'
                BY <2>2, <2>3, <3>1 DEF Single, OnePlace
            <4>3. \A k \in 1..Len(queues'), i \in Nat : Holds(q, k, i)' =>
                      \E l \in 1..Len(queues), j \in Nat : Holds(q, l, j) /\ queues'[k][i] = queues[l][j]
                BY <2>2, <2>3
            <4>4. QED
                BY <1>1, <1>2, <1>3, <3>1, <3>2, <4>1, <4>2, <4>3, NothingNew
        <3>3. CASE q = p
            <4>1. ~Handled(p)' /\ \A k \in 1..Len(queues'), i \in Nat : ~Holds(p, k, i)'
                BY <1>2, <2>2, <2>3, <2>4, <3>1, <3>3 DEF Single
            <4>2. \A d \in cq'[p] : d.msgs = <<>>
                BY <2>2 DEF Types, PlaceTypes
            <4>3. QED
                BY <3>3, <4>1, <4>2, NothingHeld
        <3>4. QED
            BY <3>2, <3>3
    <2>6. p \notin killed => Head(c.msgs).len = len[p]
        <3>1. c.msgs \in Seq(Answers)
            BY DEF Types, PlaceTypes
        <3>2. Head(c.msgs) = c.msgs[1] /\ 1 \in 1..Len(c.msgs)
            BY <2>1, <3>1
        <3>3. QED
            BY <3>2 DEF FitInv, Single
    <2>7. AnswerFitsRequest'
        BY <1>1, <2>1, <2>6 DEF FitInv, AnswerFitsRequest, Received
    <2>8. QED
        BY <1>1, <2>5, <2>7 DEF FitInv
<1>6. QED
    BY <1>4, <1>5

\* A client gets as many numbers as it asked for unless one with its pid was
\* killed before, in either program.
THEOREM AnswersFit == Spec => []AnswerFitsRequest
<1>1. Init => IInv /\ FitInv
    <2>1. Init => FitInv
        BY DEF Init, FitInv, AnswerFitsRequest, Single, OnePlace, Holds, Handled, Mail
    <2>2. Init => Separate
        BY DEF Init, Separate, AllPast, InQueues, InClients, IsAnswer
    <2>3. QED
        BY <2>1, <2>2, InitTypes DEF IInv
<1>2. IInv /\ FitInv /\ [Next]_vars => FitInv'
    <2> SUFFICES ASSUME Types, Types', FitInv, [Next]_vars PROVE FitInv'
        BY NextInv DEF IInv
    <2>1. CASE SvStep \/ SvKilled
        BY <2>1, QuietFit, ReceiveFit, SendFit DEF SvStep
    <2>2. ASSUME NEW p \in Pid, ClReadFile(p) \/ ClCreateQueue(p) \/ ClStep(p) \/ ClKilled(p) \/ Cleanup(p)
          PROVE  FitInv'
        BY <2>2, ClientQuietFit, ClSendFit, ClReceiveFit DEF ClStep
    <2>3. CASE UNCHANGED vars
        BY <2>3 DEF vars, server, clients, history, FitInv, AnswerFitsRequest, Single, OnePlace, Holds, Handled, Mail
    <2>4. QED
        BY <2>1, <2>2, <2>3 DEF Next
<1>3. FitInv => AnswerFitsRequest
    BY DEF FitInv
<1>4. QED
    BY <1>1, <1>2, <1>3, NextInv, PTL DEF Spec

-----------------------------------------------------------------------------
(* What counting the messages under way gives.                            *)

\* The requests of a client that the server has not answered.
Asked(p) == {x \in (1..Len(queues)) \X Nat :
                Holds(p, x[1], x[2]) /\ queues[x[1]][x[2]].kind = "request"}
Out(p) == Cardinality(Asked(p)) + (IF Handled(p) THEN 1 ELSE 0)
Finite == \A p \in Pid : IsFiniteSet(Asked(p))

-----------------------------------------------------------------------------
(* What a step does to the requests of a client.                           *)

LEMMA OutType ==
    ASSUME NEW p, IsFiniteSet(Asked(p))
    PROVE  Cardinality(Asked(p)) \in Nat /\ Out(p) \in Nat
BY FS_CardinalityType DEF Out

LEMMA InAsked ==
    ASSUME NEW p, NEW k \in 1..Len(queues), NEW i \in Nat, Holds(p, k, i), queues[k][i].kind = "request"
    PROVE  <<k, i>> \in Asked(p)
BY DEF Asked

\* A new queue is empty.
LEMMA AskedQuiet ==
    ASSUME Types, queues' = queues \/ queues' = Append(queues, <<>>), NEW p
    PROVE  Asked(p)' = Asked(p)
<1>1. CASE queues' = queues
    BY <1>1 DEF Asked, Holds
<1>2. CASE queues' = Append(queues, <<>>)
    <2>1. /\ Len(queues') = Len(queues) + 1 /\ queues'[Len(queues) + 1] = <<>>
          /\ \A k \in 1..Len(queues) : queues'[k] = queues[k]
        BY <1>2 DEF Types, PlaceTypes
    <2>2. Len(queues) \in Nat
        BY DEF Types, PlaceTypes
    <2>3. ASSUME NEW k \in 1..Len(queues'), NEW i \in Nat, Holds(p, k, i)'
          PROVE  k \in 1..Len(queues) /\ Holds(p, k, i) /\ queues'[k] = queues[k]
        <3>1. k # Len(queues) + 1
            BY <2>1, <2>3 DEF Holds
        <3>2. k \in 1..Len(queues)
            BY <2>1, <2>2, <3>1
        <3>3. QED
            BY <2>1, <2>3, <3>2 DEF Holds
    <2>4. ASSUME NEW k \in 1..Len(queues), NEW i \in Nat, Holds(p, k, i)
          PROVE  k \in 1..Len(queues') /\ Holds(p, k, i)' /\ queues'[k] = queues[k]
        BY <2>1, <2>2, <2>4 DEF Holds
    <2>5. QED
        BY <2>3, <2>4 DEF Asked
<1>3. QED
    BY <1>1, <1>2

\* A request that is sent adds one.
LEMMA AskedSent ==
    ASSUME Types, NEW k0 \in 1..Len(queues), NEW m \in InQueue,
           queues' = [queues EXCEPT ![k0] = Append(@, m)],
           NEW p, IsFiniteSet(Asked(p))
    PROVE  /\ IsFiniteSet(Asked(p)')
           /\ Cardinality(Asked(p)') <= Cardinality(Asked(p)) + 1
           /\ ~(m.kind = "request" /\ m.pid = p) => Cardinality(Asked(p)') <= Cardinality(Asked(p))
<1>1. /\ Len(queues') = Len(queues) /\ queues'[k0] = Append(queues[k0], m)
      /\ \A k \in 1..Len(queues) \ {k0} : queues'[k] = queues[k]
    BY DEF Types, PlaceTypes
<1>2. queues[k0] \in Seq(InQueue)
    BY DEF Types, PlaceTypes
<1>3. ASSUME NEW k \in 1..Len(queues'), NEW i \in Nat, Holds(p, k, i)', queues'[k][i].kind = "request"
      PROVE  \/ k \in 1..Len(queues) /\ Holds(p, k, i) /\ queues[k][i].kind = "request"
             \/ k = k0 /\ i = Len(queues[k0]) + 1 /\ m.kind = "request" /\ m.pid = p
    <2>1. CASE k # k0
        BY <1>1, <1>3, <2>1 DEF Holds
    <2>2. CASE k = k0 /\ i # Len(queues[k0]) + 1
        <3>1. i \in 1..Len(queues[k0]) /\ queues'[k][i] = queues[k][i]
            BY <1>1, <1>2, <1>3, <2>2 DEF Holds
        <3>2. QED
            BY <1>1, <1>3, <2>2, <3>1 DEF Holds
    <2>3. CASE k = k0 /\ i = Len(queues[k0]) + 1
        <3>1. queues'[k][i] = m
            BY <1>1, <1>2, <2>3
        <3>2. QED
            BY <1>3, <2>3, <3>1 DEF Holds
    <2>4. QED
        BY <2>1, <2>2, <2>3
<1>4. PICK x0 : x0 = <<k0, Len(queues[k0]) + 1>>
    OBVIOUS
<1>5. ASSUME NEW x \in Asked(p)'
      PROVE  x \in Asked(p) \/ (x = x0 /\ m.kind = "request" /\ m.pid = p)
    <2>1. /\ x[1] \in 1..Len(queues') /\ x[2] \in Nat /\ Holds(p, x[1], x[2])'
          /\ queues'[x[1]][x[2]].kind = "request" /\ x \in (1..Len(queues')) \X Nat
        BY <1>5 DEF Asked
    <2>2. x = <<x[1], x[2]>>
        BY <2>1
    <2>3. CASE x[1] \in 1..Len(queues) /\ Holds(p, x[1], x[2]) /\ queues[x[1]][x[2]].kind = "request"
        <3>1. <<x[1], x[2]>> \in Asked(p)
            BY <2>1, <2>3, InAsked
        <3>2. QED
            BY <2>2, <3>1
    <2>4. CASE x[1] = k0 /\ x[2] = Len(queues[k0]) + 1 /\ m.kind = "request" /\ m.pid = p
        BY <1>4, <2>2, <2>4
    <2>5. QED
        BY <1>3, <2>1, <2>3, <2>4
<1>6. /\ Asked(p)' \in SUBSET (Asked(p) \cup {x0})
      /\ ~(m.kind = "request" /\ m.pid = p) => Asked(p)' \in SUBSET Asked(p)
    BY <1>5
<1>7. Cardinality(Asked(p)) \in Nat
    BY FS_CardinalityType
<1>8. IsFiniteSet(Asked(p) \cup {x0}) /\ Cardinality(Asked(p) \cup {x0}) <= Cardinality(Asked(p)) + 1
    <2>1. /\ IsFiniteSet(Asked(p) \cup {x0})
          /\ Cardinality(Asked(p) \cup {x0}) =
                IF x0 \in Asked(p) THEN Cardinality(Asked(p)) ELSE Cardinality(Asked(p)) + 1
        BY FS_AddElement
    <2>2. QED
        BY <1>7, <2>1
<1>9. IsFiniteSet(Asked(p)') /\ Cardinality(Asked(p)') <= Cardinality(Asked(p)) + 1
    BY <1>6, <1>8, FS_Subset, FS_CardinalityType
<1>10. QED
    BY <1>6, <1>9, FS_Subset

\* A message that is taken takes its place, and what is behind it moves.
LEMMA AskedTaken ==
    ASSUME Types, NEW k0 \in 1..Len(queues), NEW i0 \in 1..Len(queues[k0]),
           queues' = [queues EXCEPT ![k0] = RemoveAt(@, i0)],
           NEW p, IsFiniteSet(Asked(p))
    PROVE  /\ IsFiniteSet(Asked(p)')
           /\ Cardinality(Asked(p)') <= Cardinality(Asked(p))
           /\ queues[k0][i0].kind = "request" /\ queues[k0][i0].pid = p =>
                 Cardinality(Asked(p)') <= Cardinality(Asked(p)) - 1
<1> DEFINE Old(k, i) == IF k = k0 THEN Shift(i0, i) ELSE i
           x0 == <<k0, i0>>
<1>1. ASSUME NEW k \in 1..Len(queues'), NEW i \in Nat, Holds(p, k, i)'
      PROVE  /\ k \in 1..Len(queues) /\ Old(k, i) \in Nat
             /\ Holds(p, k, Old(k, i)) /\ queues'[k][i] = queues[k][Old(k, i)]
             /\ ~(k = k0 /\ Old(k, i) = i0)
    BY <1>1, TakenPlaces
<1>2. \A k, i, j \in Nat : Old(k, i) = Old(k, j) => i = j
    BY DEF Shift
<1> HIDE DEF Old
<1>3. ASSUME NEW x \in Asked(p)'
      PROVE  /\ x \in Nat \X Nat
             /\ <<x[1], Old(x[1], x[2])>> \in Asked(p) \ {x0}
    <2>1. x[1] \in 1..Len(queues') /\ x[2] \in Nat /\ Holds(p, x[1], x[2])'
          /\ queues'[x[1]][x[2]].kind = "request" /\ x \in (1..Len(queues')) \X Nat
        BY <1>3 DEF Asked
    <2>2. <<x[1], Old(x[1], x[2])>> \in Asked(p)
        BY <1>1, <2>1 DEF Asked
    <2>3. <<x[1], Old(x[1], x[2])>> # x0
        BY <1>1, <2>1
    <2>4. QED
        BY <2>1, <2>2, <2>3
<1>4. PICK S : S = Asked(p)'
    OBVIOUS
<1> DEFINE f == [x \in S |-> <<x[1], Old(x[1], x[2])>>]
           T == Asked(p) \ {x0}
<1>5. f \in [S -> T] /\ \A x, y \in S : f[x] = f[y] => x = y
    <2>1. \A x \in S : f[x] \in T
        BY <1>3, <1>4
    <2>2. ASSUME NEW x \in S, NEW y \in S, f[x] = f[y] PROVE x = y
        <3>1. x \in Nat \X Nat /\ y \in Nat \X Nat
            BY <1>3, <1>4
        <3>2. x[1] = y[1] /\ Old(x[1], x[2]) = Old(y[1], y[2])
            BY <2>2
        <3>3. x[2] = y[2]
            BY <1>2, <3>1, <3>2
        <3>4. QED
            BY <3>1, <3>2, <3>3
    <2>3. QED
        BY <2>1, <2>2
<1>6. f \in Injection(S, T)
    BY <1>5 DEF Injection, IsInjective
<1>7. IsFiniteSet(T) /\ Cardinality(T) = IF x0 \in Asked(p) THEN Cardinality(Asked(p)) - 1
                                                            ELSE Cardinality(Asked(p))
    BY FS_RemoveElement
<1> HIDE DEF f, T
<1>8. IsFiniteSet(S) /\ Cardinality(S) <= Cardinality(T)
    BY <1>6, <1>7, FS_Injection
<1>9. Cardinality(S) \in Nat /\ Cardinality(Asked(p)) \in Nat
    BY <1>8, FS_CardinalityType
<1>10. queues[k0][i0].kind = "request" /\ queues[k0][i0].pid = p => x0 \in Asked(p)
    BY DEF Asked, Holds
<1>11. QED
    BY <1>4, <1>7, <1>8, <1>9, <1>10

\* The requests of a client after each kind of step: only its own sending adds
\* to them, and an answer takes one.
Fewer(p) == IsFiniteSet(Asked(p)') /\ Out(p)' <= Out(p)

LEMMA QuietOut ==
    ASSUME Types, Finite, NEW p \in Pid,
           queues' = queues \/ queues' = Append(queues, <<>>),
           Handled(p)' => Handled(p)
    PROVE  Fewer(p)
<1>1. Asked(p)' = Asked(p)
    BY AskedQuiet
<1>2. PICK n : n = Cardinality(Asked(p)) /\ n \in Nat /\ Out(p) = n + (IF Handled(p) THEN 1 ELSE 0)
    BY OutType DEF Out, Finite
<1>3. Out(p)' = n + (IF Handled(p)' THEN 1 ELSE 0)
    BY <1>1, <1>2 DEF Out
<1>4. QED
    BY <1>1, <1>2, <1>3 DEF Fewer, Finite

LEMMA ServerOut ==
    ASSUME Types, Finite, NEW p \in Pid, SvStep \/ SvKilled
    PROVE  Fewer(p) /\ (SvSend /\ req.pid = p => Out(p)' <= Out(p) - 1)
<1> USE DEF clients, history, server
<1>1. PICK n : n = Cardinality(Asked(p)) /\ n \in Nat /\ Out(p) = n + (IF Handled(p) THEN 1 ELSE 0)
    BY OutType DEF Out, Finite
<1>2. PICK b : b = Cardinality(Asked(p)') /\ Out(p)' = b + (IF Handled(p)' THEN 1 ELSE 0)
    BY DEF Out
<1>3. CASE SvMsgget \/ SvMqOpen \/ SvTruncate \/ SvPublish \/ SvOpenClient \/ SvKilled
    <2>1. queues' = queues \/ queues' = Append(queues, <<>>)
        BY <1>3 DEF SvMsgget, SvMqOpen, SvTruncate, SvPublish, SvOpenClient, SvKilled
    <2>2. Handled(p)' => Handled(p)
        BY <1>3 DEF Handled, SvMsgget, SvMqOpen, SvTruncate, SvPublish, SvOpenClient, SvKilled, Starting
    <2>3. ~SvSend
        BY <1>3 DEF SvMsgget, SvMqOpen, SvTruncate, SvPublish, SvOpenClient, SvKilled, Starting, SvSend
    <2>4. QED
        BY <2>1, <2>2, <2>3, QuietOut
<1>4. CASE SvReceive
    <2>1. PICK i0 \in 1..Len(queues[mine]) :
              /\ First(i0, RequestsIn(queues[mine])) /\ req' = queues[mine][i0]
              /\ queues' = [queues EXCEPT ![mine] = RemoveAt(@, i0)]
        BY <1>4 DEF SvReceive
    <2>2. mine \in 1..Len(queues) /\ spc = "receive" /\ ~SvSend
        BY <1>4 DEF SvReceive, SvSend, Types, ProcessTypes
    <2>3. /\ IsFiniteSet(Asked(p)') /\ b <= n
          /\ queues[mine][i0].kind = "request" /\ queues[mine][i0].pid = p => b <= n - 1
        BY <1>1, <1>2, <2>1, <2>2, AskedTaken DEF Finite
    <2>4. b \in Nat
        BY <1>2, <2>3, FS_CardinalityType
    <2>5. ~Handled(p) /\ (Handled(p)' => queues[mine][i0].pid = p)
        BY <2>1, <2>2 DEF Handled
    <2>6. queues[mine][i0].kind = "request"
        BY <2>1 DEF First, RequestsIn
    <2>7. Out(p)' <= Out(p)
        BY <1>1, <1>2, <2>3, <2>4, <2>5, <2>6
    <2>8. QED
        BY <2>2, <2>3, <2>7 DEF Fewer
<1>5. CASE SvSend
    <2>1. spc = "send" /\ ~Handled(p)' /\ (Handled(p) <=> req.pid = p) /\ mine \in 1..Len(queues)
        BY <1>5 DEF SvSend, Handled, Types, ProcessTypes
    <2>2. IsFiniteSet(Asked(p)') /\ b <= n
        <3>1. CASE Sysv
            <4>1. PICK m \in InQueue : m.kind = "answer" /\ queues' = [queues EXCEPT ![mine] = Append(@, m)]
                <5>1. Answer(req.pid, req.len, seqNum) \in InQueue
                    BY <2>1, <3>1, AnswerType DEF InQueue
                <5>2. queues' = [queues EXCEPT ![mine] = Append(@, Answer(req.pid, req.len, seqNum))]
                    BY <1>5, <3>1 DEF SvSend, SendAnswer, Send
                <5>3. QED
                    BY <5>1, <5>2 DEF Answer
            <4>2. QED
                BY <1>1, <1>2, <2>1, <4>1, AskedSent DEF Finite
        <3>2. CASE ~Sysv
            <4>1. Asked(p)' = Asked(p)
                BY <1>5, <3>2, AskedQuiet DEF SvSend, SendAnswer
            <4>2. QED
                BY <1>1, <1>2, <4>1 DEF Finite
        <3>3. QED
            BY <3>1, <3>2
    <2>3. b \in Nat
        BY <1>2, <2>2, FS_CardinalityType
    <2>4. Out(p)' <= Out(p) /\ (req.pid = p => Out(p)' <= Out(p) - 1)
        BY <1>1, <1>2, <2>1, <2>2, <2>3
    <2>5. QED
        BY <2>2, <2>4 DEF Fewer
<1>6. QED
    BY <1>3, <1>4, <1>5 DEF SvStep

LEMMA ClientOut ==
    ASSUME Types, Finite, NEW p \in Pid, NEW q \in Pid,
           ClReadFile(q) \/ ClCreateQueue(q) \/ ClStep(q) \/ ClKilled(q) \/ Cleanup(q)
    PROVE  /\ IsFiniteSet(Asked(p)')
           /\ IF p = q /\ ClSend(q) THEN Out(p)' <= Out(p) + 1 ELSE Out(p)' <= Out(p)
<1> USE DEF clients, history, server
<1>1. PICK n : n = Cardinality(Asked(p)) /\ n \in Nat /\ Out(p) = n + (IF Handled(p) THEN 1 ELSE 0)
    BY OutType DEF Out, Finite
<1>2. PICK b : b = Cardinality(Asked(p)') /\ Out(p)' = b + (IF Handled(p)' THEN 1 ELSE 0)
    BY DEF Out
<1>3. Handled(p)' = Handled(p)
    BY DEF Handled, ClReadFile, ClCreateQueue, ClStep, ClOpenServer, ClSend, ClReceive, ClKilled, Cleanup
<1>4. CASE queues' = queues
    <2>1. Fewer(p)
        BY <1>3, <1>4, QuietOut
    <2>2. Out(p) \in Nat /\ Out(p)' \in Nat
        <3>1. IsFiniteSet(Asked(p)')
            BY <2>1 DEF Fewer
        <3>2. b \in Nat
            BY <1>2, <3>1, FS_CardinalityType
        <3>3. QED
            BY <1>1, <1>2, <3>2
    <2>3. QED
        BY <2>1, <2>2 DEF Fewer
<1>5. CASE ClSend(q)
    <2>1. PICK m \in InQueue, k0 \in 1..Len(queues) :
              m.pid = q /\ queues' = [queues EXCEPT ![k0] = Append(@, m)]
        <3>1. /\ Request(q, len[q]) \in InQueue /\ Request(q, len[q]).pid = q /\ cid[q] \in 1..Len(queues)
              /\ queues' = [queues EXCEPT ![cid[q]] = Append(@, Request(q, len[q]))]
            BY <1>5 DEF ClSend, Send, Request, Requests, InQueue, Types, ProcessTypes
        <3>2. QED
            BY <3>1
    <2>2. IsFiniteSet(Asked(p)') /\ b <= n + 1 /\ (p # q => b <= n)
        BY <1>1, <1>2, <2>1, AskedSent DEF Finite
    <2>3. b \in Nat
        BY <1>2, <2>2, FS_CardinalityType
    <2>4. QED
        BY <1>1, <1>2, <1>3, <1>5, <2>2, <2>3
<1>6. CASE ClReceive(q) /\ Sysv
    <2>1. PICK k0 \in 1..Len(queues) : k0 = cid[q]
        BY <1>6 DEF ClReceive, Types, ProcessTypes
    <2>2. PICK i0 \in 1..Len(queues[k0]) : queues' = [queues EXCEPT ![k0] = RemoveAt(@, i0)]
        BY <1>6, <2>1 DEF ClReceive
    <2>3. IsFiniteSet(Asked(p)') /\ b <= n
        BY <1>1, <1>2, <2>2, AskedTaken DEF Finite
    <2>4. b \in Nat
        BY <1>2, <2>3, FS_CardinalityType
    <2>5. ~ClSend(q)
        BY <1>6 DEF ClReceive, ClSend
    <2>6. QED
        BY <1>1, <1>2, <1>3, <2>3, <2>4, <2>5
<1>7. queues' = queues \/ ClSend(q) \/ (ClReceive(q) /\ Sysv)
    BY DEF ClReadFile, ClCreateQueue, ClStep, ClOpenServer, ClReceive, ClKilled, Cleanup
<1>8. QED
    BY <1>4, <1>5, <1>6, <1>7

-----------------------------------------------------------------------------
(* A client process is granted one range at most.                          *)

GrantsOf(p) == {g \in granted : g.pid = p}
About(p) == IF cpc[p] \in {"open", "send"} THEN 1 ELSE 0
GrantInv ==
    /\ Finite
    /\ \A g \in granted : g.pid \in Pid
    /\ \A p \in Pid : /\ IsFiniteSet(GrantsOf(p)) /\ runs[p] <= MaxRuns
                       /\ Cardinality(GrantsOf(p)) + Out(p) + About(p) <= runs[p]

LEMMA ServerGrants ==
    ASSUME Types, GrantInv, SvStep \/ SvKilled
    PROVE  GrantInv'
<1> USE DEF clients, history, server
<1>1. runs' = runs /\ cpc' = cpc
    BY DEF SvStep, SvMsgget, SvMqOpen, SvTruncate, SvPublish, SvReceive, SvOpenClient, SvSend, SvKilled
<1>2. granted' = IF SvSend THEN granted \cup {Grant} ELSE granted
    BY DEF SvStep, SvMsgget, SvMqOpen, SvTruncate, SvPublish, SvReceive, SvOpenClient, SvSend, SvKilled, Starting
<1>3. SvSend => Grant.pid = req.pid /\ req.pid \in Pid
    BY AnswerType DEF SvSend, Grant
<1>4. ASSUME NEW p \in Pid
      PROVE  /\ IsFiniteSet(Asked(p)') /\ IsFiniteSet(GrantsOf(p)') /\ runs'[p] <= MaxRuns
             /\ (Cardinality(GrantsOf(p)) + Out(p) + About(p) <= runs[p])'
    <2>1. PICK g, n, a, r : /\ g = Cardinality(GrantsOf(p)) /\ n = Out(p) /\ a = About(p) /\ r = runs[p]
                            /\ g \in Nat /\ n \in Nat /\ a \in Nat /\ r \in Nat /\ g + n + a <= r
        BY OutType, FS_CardinalityType DEF GrantInv, Finite, About, Types, ProcessTypes
    <2>2. /\ IsFiniteSet(Asked(p)') /\ Out(p)' <= n
          /\ SvSend /\ req.pid = p => Out(p)' <= n - 1
        BY <2>1, ServerOut DEF Fewer, GrantInv
    <2>3. Out(p)' \in Nat
        <3>1. PICK b : b = Cardinality(Asked(p)') /\ Out(p)' = b + (IF Handled(p)' THEN 1 ELSE 0)
            BY DEF Out
        <3>2. QED
            BY <2>2, <3>1, FS_CardinalityType
    <2>4. About(p)' = a
        BY <1>1, <2>1 DEF About
    <2>5. CASE SvSend /\ req.pid = p
        <3>1. PICK x : GrantsOf(p)' \in SUBSET (GrantsOf(p) \cup {x})
            <4>1. GrantsOf(p)' \in SUBSET (GrantsOf(p) \cup {Grant})
                BY <1>2, <2>5 DEF GrantsOf
            <4>2. QED
                BY <4>1
        <3>2. /\ IsFiniteSet(GrantsOf(p) \cup {x})
              /\ Cardinality(GrantsOf(p) \cup {x}) = IF x \in GrantsOf(p) THEN g ELSE g + 1
            BY <2>1, FS_AddElement DEF GrantInv
        <3>3. /\ IsFiniteSet(GrantsOf(p)') /\ Cardinality(GrantsOf(p)') <= g + 1
              /\ Cardinality(GrantsOf(p)') \in Nat
            BY <2>1, <3>1, <3>2, FS_Subset, FS_CardinalityType
        <3>4. Cardinality(GrantsOf(p)') + Out(p)' + About(p)' <= r
            BY <2>1, <2>2, <2>3, <2>4, <2>5, <3>3
        <3>5. QED
            BY <1>1, <2>1, <2>2, <3>3, <3>4 DEF GrantInv
    <2>6. CASE ~(SvSend /\ req.pid = p)
        <3>1. GrantsOf(p)' = GrantsOf(p)
            BY <1>2, <1>3, <2>6 DEF GrantsOf
        <3>2. Cardinality(GrantsOf(p)') + Out(p)' + About(p)' <= r
            BY <2>1, <2>2, <2>3, <2>4, <3>1
        <3>3. QED
            BY <1>1, <2>1, <2>2, <3>1, <3>2 DEF GrantInv
    <2>7. QED
        BY <2>5, <2>6
<1>5. \A g \in granted' : g.pid \in Pid
    BY <1>2, <1>3 DEF GrantInv
<1>6. QED
    BY <1>4, <1>5 DEF GrantInv, Finite

LEMMA ClientGrants ==
    ASSUME Types, GrantInv, NEW q \in Pid,
           ClReadFile(q) \/ ClCreateQueue(q) \/ ClStep(q) \/ ClKilled(q) \/ Cleanup(q)
    PROVE  GrantInv'
<1> USE DEF clients, history, server
<1>1. granted' = granted
    BY DEF ClReadFile, ClCreateQueue, ClStep, ClOpenServer, ClSend, ClReceive, ClKilled, Cleanup
<1>2. ASSUME NEW p \in Pid
      PROVE  /\ About(p)' + (IF p = q /\ ClSend(q) THEN 1 ELSE 0) + runs[p] <= About(p) + runs'[p]
             /\ About(p)' \in Nat /\ runs'[p] \in Nat /\ runs'[p] <= MaxRuns
    <2>1. runs \in [Pid -> Nat] /\ cpc \in [Pid -> {"idle", "open", "send", "wait"}] /\ runs[p] <= MaxRuns
          /\ MaxRuns \in Nat
        BY MsgSeqnumAssumption DEF Types, ProcessTypes, GrantInv
    <2>2. CASE ClReadFile(q) \/ ClCreateQueue(q)
        <3>1. /\ runs' = [runs EXCEPT ![q] = @ + 1] /\ cpc[q] = "idle" /\ runs[q] < MaxRuns
              /\ \A s \in Pid \ {q} : cpc'[s] = cpc[s]
            BY <2>1, <2>2 DEF ClReadFile, ClCreateQueue, Begin, Goto
        <3>2. CASE p = q
            BY <2>1, <2>2, <3>1, <3>2 DEF About, ClSend
        <3>3. CASE p # q
            BY <2>1, <3>1, <3>3 DEF About
        <3>4. QED
            BY <3>2, <3>3
    <2>3. CASE ClSend(q)
        <3>1. runs' = runs /\ cpc' = [cpc EXCEPT ![q] = "wait"] /\ cpc[q] = "send"
            BY <2>3 DEF ClSend, Goto
        <3>2. CASE p = q
            BY <2>1, <3>1, <3>2 DEF About
        <3>3. CASE p # q
            BY <2>1, <3>1, <3>3 DEF About
        <3>4. QED
            BY <3>2, <3>3
    <2>4. CASE ClOpenServer(q) \/ ClReceive(q) \/ ClKilled(q) \/ Cleanup(q)
        <3>1. runs' = runs /\ ~ClSend(q)
            BY <2>4 DEF ClOpenServer, ClReceive, ClKilled, Cleanup, ClSend
        <3>2. About(p)' <= About(p)
            BY <2>1, <2>4 DEF ClOpenServer, ClReceive, ClKilled, Cleanup, Goto, About
        <3>3. QED
            BY <2>1, <3>1, <3>2 DEF About
    <2>5. QED
        BY <2>2, <2>3, <2>4 DEF ClStep
<1>3. ASSUME NEW p \in Pid
      PROVE  /\ IsFiniteSet(Asked(p)') /\ IsFiniteSet(GrantsOf(p)') /\ runs'[p] <= MaxRuns
             /\ (Cardinality(GrantsOf(p)) + Out(p) + About(p) <= runs[p])'
    <2>1. PICK g, n, a, r : /\ g = Cardinality(GrantsOf(p)) /\ n = Out(p) /\ a = About(p) /\ r = runs[p]
                            /\ g \in Nat /\ n \in Nat /\ a \in Nat /\ r \in Nat /\ g + n + a <= r
        BY OutType, FS_CardinalityType DEF GrantInv, Finite, About, Types, ProcessTypes
    <2>2. /\ IsFiniteSet(Asked(p)')
          /\ IF p = q /\ ClSend(q) THEN Out(p)' <= n + 1 ELSE Out(p)' <= n
        BY <2>1, ClientOut DEF GrantInv
    <2>3. Out(p)' \in Nat
        <3>1. PICK b : b = Cardinality(Asked(p)') /\ Out(p)' = b + (IF Handled(p)' THEN 1 ELSE 0)
            BY DEF Out
        <3>2. QED
            BY <2>2, <3>1, FS_CardinalityType
    <2>4. GrantsOf(p)' = GrantsOf(p)
        BY <1>1 DEF GrantsOf
    <2>5. g + Out(p)' + About(p)' <= runs'[p]
        BY <1>2, <2>1, <2>2, <2>3
    <2>6. QED
        BY <1>2, <2>1, <2>2, <2>4, <2>5 DEF GrantInv
<1>4. QED
    BY <1>1, <1>3 DEF GrantInv, Finite

\* No more ranges are granted than client processes can be started.
LEMMA GrantedBound ==
    ASSUME Types, GrantInv
    PROVE  IsFiniteSet(granted) /\ Cardinality(granted) <= Cardinality(Pid) * MaxRuns
<1> DEFINE Numberings(p) == Injection(GrantsOf(p), 1..MaxRuns)
           number(p) == CHOOSE f \in Numberings(p) : TRUE
           T == Pid \X (1..MaxRuns)
<1>1. MaxRuns \in Nat /\ IsFiniteSet(Pid)
    BY MsgSeqnumAssumption
<1>2. ASSUME NEW p \in Pid PROVE \E f : f \in Numberings(p)
    <2>1. PICK n : n = Cardinality(GrantsOf(p)) /\ n \in Nat /\ ExistsBijection(1..n, GrantsOf(p))
        BY FS_CardinalityType DEF GrantInv
    <2>2. n <= MaxRuns
        <3>1. Out(p) \in Nat /\ About(p) \in Nat /\ runs[p] \in Nat
            BY OutType DEF GrantInv, Finite, About, Types, ProcessTypes
        <3>2. n + Out(p) + About(p) <= runs[p] /\ runs[p] <= MaxRuns
            BY <2>1 DEF GrantInv
        <3>3. QED
            BY <1>1, <2>1, <3>1, <3>2
    <2>3. ExistsBijection(GrantsOf(p), 1..n)
        BY <2>1, Fun_ExistsBijSymmetric
    <2>4. PICK f : f \in Bijection(GrantsOf(p), 1..n)
        BY <2>3 DEF ExistsBijection
    <2>5. f \in [GrantsOf(p) -> 1..MaxRuns]
        BY <1>1, <2>1, <2>2, <2>4 DEF Bijection, Injection
    <2>6. QED
        BY <2>4, <2>5 DEF Bijection, Injection
<1>3. ASSUME NEW p \in Pid
      PROVE  /\ number(p) \in [GrantsOf(p) -> 1..MaxRuns]
             /\ \A g, h \in GrantsOf(p) : number(p)[g] = number(p)[h] => g = h
    BY <1>2 DEF Injection, IsInjective
<1> HIDE DEF number, Numberings, T
<1> DEFINE F == [g \in granted |-> <<g.pid, number(g.pid)[g]>>]
<1>4. \A g \in granted : F[g] \in T
    BY <1>3 DEF GrantInv, GrantsOf, T
<1>5. \A g, h \in granted : F[g] = F[h] => g = h
    <2> SUFFICES ASSUME NEW g \in granted, NEW h \in granted, F[g] = F[h] PROVE g = h
        OBVIOUS
    <2>1. g.pid = h.pid /\ number(g.pid)[g] = number(h.pid)[h] /\ g.pid \in Pid
        BY DEF GrantInv
    <2>2. g \in GrantsOf(g.pid) /\ h \in GrantsOf(g.pid)
        BY <2>1 DEF GrantsOf
    <2>3. QED
        BY <1>3, <2>1, <2>2
<1>6. F \in Injection(granted, T)
    BY <1>4, <1>5 DEF Injection, IsInjective
<1>7. IsFiniteSet(1..MaxRuns) /\ Cardinality(1..MaxRuns) = MaxRuns
    BY <1>1, FS_Interval
<1>8. IsFiniteSet(T) /\ Cardinality(T) = Cardinality(Pid) * MaxRuns
    BY <1>1, <1>7, FS_Product DEF T
<1> HIDE DEF F
<1>9. QED
    BY <1>6, <1>8, FS_Injection

LEMMA NothingAsked == ASSUME queues = <<>> PROVE \A p : Asked(p) = {}
BY DEF Asked

LEMMA GrantInvariant ==
    /\ Init => IInv /\ GrantInv
    /\ IInv /\ GrantInv /\ [Next]_vars => GrantInv'
<1>1. ASSUME Init PROVE IInv /\ GrantInv
    <2>1. IInv
        <3>1. Separate
            BY <1>1 DEF Init, Separate, AllPast, InQueues, InClients, IsAnswer
        <3>2. QED
            BY <1>1, <3>1, InitTypes DEF IInv
    <2>2. \A p \in Pid : Asked(p) = {} /\ GrantsOf(p) = {} /\ ~Handled(p) /\ About(p) = 0 /\ runs[p] = 0
        BY <1>1, NothingAsked DEF Init, GrantsOf, Handled, About
    <2>3. IsFiniteSet({}) /\ Cardinality({}) = 0
        BY FS_EmptySet
    <2>4. \A p \in Pid : Out(p) = 0
        BY <2>2, <2>3 DEF Out
    <2>5. \A p \in Pid : Cardinality(GrantsOf(p)) + Out(p) + About(p) <= runs[p] /\ runs[p] <= MaxRuns
        BY <2>2, <2>3, <2>4, MsgSeqnumAssumption
    <2>6. \A p \in Pid : IsFiniteSet(Asked(p)) /\ IsFiniteSet(GrantsOf(p))
        BY <2>2, <2>3
    <2>7. \A g \in granted : g.pid \in Pid
        BY <1>1 DEF Init
    <2>8. QED
        BY <2>1, <2>5, <2>6, <2>7 DEF GrantInv, Finite
<1>2. ASSUME Types, GrantInv, [Next]_vars PROVE GrantInv'
    <2>1. CASE SvStep \/ SvKilled
        BY <1>2, <2>1, ServerGrants
    <2>2. ASSUME NEW p \in Pid, ClReadFile(p) \/ ClCreateQueue(p) \/ ClStep(p) \/ ClKilled(p) \/ Cleanup(p)
          PROVE  GrantInv'
        BY <1>2, <2>2, ClientGrants
    <2>3. CASE UNCHANGED vars
        <3>1. /\ queues' = queues /\ granted' = granted /\ runs' = runs /\ cpc' = cpc /\ spc' = spc /\ req' = req
            BY <2>3 DEF vars, server, clients, history
        <3>2. \A p : /\ Asked(p)' = Asked(p) /\ GrantsOf(p)' = GrantsOf(p) /\ Handled(p)' = Handled(p)
                     /\ About(p)' = About(p)
            BY <3>1 DEF Asked, Holds, GrantsOf, Handled, About
        <3>3. \A p : Out(p)' = Out(p)
            BY <3>2 DEF Out
        <3>4. QED
            BY <1>2, <3>1, <3>2, <3>3 DEF GrantInv, Finite
    <2>4. QED
        BY <1>2, <2>1, <2>2, <2>3 DEF Next
<1>3. QED
    BY <1>1, <1>2 DEF IInv

-----------------------------------------------------------------------------
(* Refinement.  A server process is up from its publication (or mq_open)   *)
(* to its death; SvSend is the service's Allocate.                         *)

\* Both programs implement the abstract sequence-number service, whose start
\* repeats everything at the worst: no more ranges than client processes.
THEOREM Refinement == Spec => ImplementsService
<1> DEFINE top == CHOOSE n \in Len1 : \A l \in Len1 : l <= n
           most == Cardinality(Pid) * MaxRuns
           next == IF Running THEN seqNum ELSE 0
<1>1. Init => Service!Init
    BY DEF Init, Service!Init, Running
<1>2. Types /\ GrantInv /\ [Next]_vars => [Service!Next]_(Service!vars)
    <2> SUFFICES ASSUME Types, GrantInv, [Next]_vars PROVE [Service!Next]_(Service!vars)
        OBVIOUS
    <2>1. Len1 \subseteq 1..top
        <3>1. \E n : n \in Len1 /\ \A l \in Len1 : l <= n
            BY MsgSeqnumAssumption
        <3>2. top = CHOOSE n : n \in Len1 /\ \A l \in Len1 : l <= n
            OBVIOUS
        <3>3. top \in Len1 /\ \A l \in Len1 : l <= top
            BY <3>1, <3>2, Zenon
        <3> HIDE DEF top
        <3>4. QED
            BY <3>3, MsgSeqnumAssumption
    \* The abstract module has the Cardinality of its own instance of FiniteSets.
    <2>2. \A S : Service!Cardinality(S) = Cardinality(S)
        BY DEF Service!Cardinality, Cardinality
    <2>3. ASSUME NEW n, n = 0 PROVE Cardinality(Service!Repeated(era, n)) <= most
        <3>1. Service!Repeated(era, n) \in SUBSET granted
            BY DEF Service!Repeated
        <3>2. /\ IsFiniteSet(granted) /\ Cardinality(granted) <= most
              /\ Cardinality(Service!Repeated(era, n)) <= Cardinality(granted)
            BY <3>1, GrantedBound, FS_Subset
        <3>3. /\ Cardinality(granted) \in Nat /\ Cardinality(Service!Repeated(era, n)) \in Nat
            BY <3>1, <3>2, FS_Subset, FS_CardinalityType
        <3>4. most \in Nat
            BY MsgSeqnumAssumption, FS_CardinalityType
        <3>5. QED
            BY <3>2, <3>3, <3>4
    <2> HIDE DEF top, most
    <2>4. CASE SvPublish \/ (SvMqOpen /\ queues = <<>>)
        <3>1. /\ ~Running /\ Running' /\ era' = era + 1 /\ seqNum' = 0 /\ granted' = granted
            BY <2>4 DEF SvPublish, SvMqOpen, Starting, Running, history
        <3>2. next' = 0
            BY <3>1
        <3>3. Service!Cardinality(Service!Repeated(era, next')) <= most
            BY <2>2, <2>3, <3>2
        <3>4. Service!Start
            BY <3>1, <3>2, <3>3 DEF Service!Start, most
        <3>5. QED
            BY <3>4 DEF Service!Next
    <2>5. CASE SvSend
        <3>1. req.pid \in Pid /\ req.len \in 1..top
            BY <2>1, <2>5, AnswerType DEF SvSend
        <3>2. Service!Allocate(req.pid, req.len)
            BY <2>5 DEF SvSend, Grant, Running, Service!Allocate
        <3>3. QED
            BY <3>1, <3>2 DEF Service!Next, top
    <2>6. CASE SvKilled
        BY <2>6 DEF SvKilled, Running, history, Service!Stop, Service!Next, Service!vars
    <2>7. CASE SvMsgget \/ SvTruncate \/ (SvMqOpen /\ queues # <<>>) \/ SvReceive \/ SvOpenClient
        <3>1. era' = era /\ seqNum' = seqNum /\ granted' = granted
            BY <2>7 DEF SvMsgget, SvTruncate, SvMqOpen, SvReceive, SvOpenClient, history
        <3>2. Running' = Running
            BY <2>7 DEF SvMsgget, SvTruncate, SvMqOpen, SvReceive, SvOpenClient, Starting, Running
        <3>3. QED
            BY <3>1, <3>2 DEF Service!vars
    <2>8. ASSUME NEW p \in Pid, ClReadFile(p) \/ ClCreateQueue(p) \/ ClStep(p) \/ ClKilled(p) \/ Cleanup(p)
          PROVE  UNCHANGED Service!vars
        <3>1. UNCHANGED <<spc, era, seqNum, granted>>
            BY <2>8 DEF ClReadFile, ClCreateQueue, ClStep, ClOpenServer, ClSend, ClReceive, ClKilled,
               Cleanup, server, history
        <3>2. QED
            BY <3>1 DEF Running, Service!vars
    <2>9. CASE UNCHANGED vars
        BY <2>9 DEF vars, server, history, Running, Service!vars
    <2>10. QED
        BY <2>4, <2>5, <2>6, <2>7, <2>8, <2>9 DEF Next, SvStep
<1>3. IInv => Types
    BY DEF IInv
<1>4. QED
    BY <1>1, <1>2, <1>3, GrantInvariant, NextInv, PTL DEF Spec, ImplementsService, Service!Spec

-----------------------------------------------------------------------------
(* Types and limits.                                                       *)

\* What a queue holds of its limit: a message is one or two units, and taking
\* one frees some.
LEMMA UsedFacts ==
    ASSUME NEW S, NEW q \in Seq(S)
    PROVE  /\ Used(q) \in Nat /\ Used(q) <= 2 * Len(q)
           /\ q = <<>> => Used(q) = 0
           /\ \A i \in 1..Len(q) : Used(RemoveAt(q, i)) <= Used(q)
<1>1. Len(q) \in Nat /\ IsFiniteSet(1..Len(q)) /\ Cardinality(1..Len(q)) = Len(q)
    <2>1. PICK n \in Nat : n = Len(q)
        OBVIOUS
    <2>2. IsFiniteSet(1..n) /\ Cardinality(1..n) = n
        BY FS_Interval, 1 \in Int, n \in Int
    <2>3. QED
        BY <2>1, <2>2
<1>2. \A s \in Seq(S) : RequestsIn(s) \in SUBSET (1..Len(s))
    BY DEF RequestsIn
<1>3. /\ IsFiniteSet(RequestsIn(q)) /\ Cardinality(RequestsIn(q)) \in Nat
      /\ Cardinality(RequestsIn(q)) <= Len(q)
    BY <1>1, <1>2, FS_Subset, FS_CardinalityType
<1>4. Used(q) = Len(q) + Cardinality(RequestsIn(q))
    BY DEF Used
<1>5. ASSUME NEW i \in 1..Len(q) PROVE Used(RemoveAt(q, i)) <= Used(q)
    <2>1. PICK r : r = RemoveAt(q, i)
        OBVIOUS
    <2>2. r \in Seq(S) /\ Len(r) = Len(q) - 1
        BY <2>1, RemoveFacts
    <2>3. \A j \in 1..(Len(q) - 1) : r[j] = q[Shift(i, j)]
        BY <2>1, RemoveFacts
    <2> DEFINE move == [j \in RequestsIn(r) |-> Shift(i, j)]
    <2>4. ASSUME NEW j \in RequestsIn(r) PROVE Shift(i, j) \in RequestsIn(q) /\ j \in Nat
        <3>1. j \in 1..(Len(q) - 1) /\ r[j].kind = "request"
            BY <2>2, <2>4 DEF RequestsIn
        <3>2. Shift(i, j) \in 1..Len(q)
            BY <1>1, <3>1 DEF Shift
        <3>3. q[Shift(i, j)].kind = "request"
            BY <2>3, <3>1
        <3>4. QED
            BY <3>1, <3>2, <3>3 DEF RequestsIn
    <2>5. \A j, k \in Nat : Shift(i, j) = Shift(i, k) => j = k
        BY DEF Shift
    <2>6. move \in Injection(RequestsIn(r), RequestsIn(q))
        BY <2>4, <2>5 DEF Injection, IsInjective
    <2> HIDE DEF move
    <2>7. Cardinality(RequestsIn(r)) <= Cardinality(RequestsIn(q)) /\ IsFiniteSet(RequestsIn(r))
        BY <1>3, <2>6, FS_Injection
    <2>8. Cardinality(RequestsIn(r)) \in Nat
        BY <2>7, FS_CardinalityType
    <2>9. Used(r) = Len(q) - 1 + Cardinality(RequestsIn(r))
        BY <2>2 DEF Used
    <2>10. QED
        BY <1>1, <1>3, <1>4, <2>1, <2>7, <2>8, <2>9
<1>6. q = <<>> => Used(q) = 0
    <2>1. ASSUME q = <<>> PROVE RequestsIn(q) = {} /\ Len(q) = 0
        <3>1. DOMAIN q = {} /\ Len(q) = 0
            BY <2>1
        <3>2. QED
            BY <3>1 DEF RequestsIn
    <2>2. q = <<>> => Cardinality(RequestsIn(q)) = 0
        BY <2>1, FS_EmptySet
    <2>3. QED
        BY <1>4, <2>1, <2>2
<1>7. Used(q) \in Nat /\ Used(q) <= 2 * Len(q)
    BY <1>1, <1>3, <1>4
<1>8. QED
    BY <1>5, <1>6, <1>7

WithinLimit(q) == IF Sysv THEN Used(q) <= Room ELSE Len(q) <= MaxMsg
QueueLimits == \A k \in 1..Len(queues) : WithinLimit(queues[k])
MailLimits == \A p \in Pid : \A c \in cq[p] : Len(c.msgs) <= MaxMsg
LimitInv == /\ req \in Requests \cup {NoRequest} /\ mine \in 0..Len(queues)
            /\ QueueLimits /\ MailLimits

LEMMA SentWithin ==
    ASSUME Types, QueueLimits, NEW k \in 1..Len(queues), NEW m \in InQueue, Send(k, m),
           variant' = variant
    PROVE  QueueLimits'
<1>1. /\ Len(queues') = Len(queues) /\ queues'[k] = Append(queues[k], m)
      /\ \A j \in 1..Len(queues) \ {k} : queues'[j] = queues[j]
    BY DEF Send, Types, PlaceTypes
<1>2. queues[k] \in Seq(InQueue) /\ Len(Append(queues[k], m)) = Len(queues[k]) + 1 /\ Len(queues[k]) \in Nat
    BY DEF Types, PlaceTypes
<1>3. Fits(queues[k], m)
    BY DEF Send
<1>4. WithinLimit(Append(queues[k], m))
    BY <1>2, <1>3, MsgSeqnumAssumption DEF Fits, WithinLimit
<1>5. \A j \in 1..Len(queues') : WithinLimit(queues'[j])
    BY <1>1, <1>4 DEF QueueLimits
<1>6. QED
    BY <1>5 DEF QueueLimits, WithinLimit, Sysv, Used, RequestsIn

LEMMA TakenWithin ==
    ASSUME Types, QueueLimits, NEW k \in 1..Len(queues), NEW i \in 1..Len(queues[k]),
           queues' = [queues EXCEPT ![k] = RemoveAt(@, i)], variant' = variant
    PROVE  QueueLimits'
<1>1. /\ Len(queues') = Len(queues) /\ queues'[k] = RemoveAt(queues[k], i)
      /\ \A j \in 1..Len(queues) \ {k} : queues'[j] = queues[j]
    BY DEF Types, PlaceTypes
<1>2. queues[k] \in Seq(InQueue)
    BY DEF Types, PlaceTypes
<1>3. Used(queues[k]) \in Nat /\ Used(RemoveAt(queues[k], i)) <= Used(queues[k])
    BY <1>2, UsedFacts
<1>4. RemoveAt(queues[k], i) \in Seq(InQueue) /\ Len(RemoveAt(queues[k], i)) = Len(queues[k]) - 1
    BY <1>2, RemoveFacts
<1>5. Used(RemoveAt(queues[k], i)) \in Nat
    BY <1>4, UsedFacts
<1>6. WithinLimit(queues[k]) /\ Len(queues[k]) \in Nat
    BY <1>2 DEF QueueLimits
<1>7. WithinLimit(RemoveAt(queues[k], i))
    BY <1>3, <1>4, <1>5, <1>6, MsgSeqnumAssumption DEF WithinLimit
<1>8. \A j \in 1..Len(queues') : WithinLimit(queues'[j])
    BY <1>1, <1>7 DEF QueueLimits
<1>9. QED
    BY <1>8 DEF QueueLimits, WithinLimit, Sysv, Used, RequestsIn

LEMMA ServerLimits ==
    ASSUME Types, Types', LimitInv, SvStep \/ SvKilled
    PROVE  LimitInv'
<1> USE DEF clients, history, server
<1>1. variant' = variant /\ MaxMsg \in Nat /\ MaxMsg >= 2
    BY MsgSeqnumAssumption DEF SvStep, SvMsgget, SvMqOpen, SvTruncate, SvPublish, SvReceive, SvOpenClient,
       SvSend, SvKilled
<1>2. CASE SvMsgget \/ SvMqOpen \/ SvTruncate \/ SvPublish \/ SvOpenClient \/ SvKilled
    <2>1. cq' = cq
        BY <1>2 DEF SvMsgget, SvMqOpen, SvTruncate, SvPublish, SvOpenClient, SvKilled
    <2>2. queues' = queues \/ queues' = Append(queues, <<>>)
        BY <1>2 DEF SvMsgget, SvMqOpen, SvTruncate, SvPublish, SvOpenClient, SvKilled
    <2>3. req' \in Requests \cup {NoRequest}
        BY <1>2 DEF LimitInv, SvMsgget, SvMqOpen, SvTruncate, SvPublish, SvOpenClient, SvKilled
    <2>4. WithinLimit(<<>>)
        <3>1. Used(<<>>) = 0 /\ Len(<<>>) = 0
            BY <<>> \in Seq({}), UsedFacts
        <3>2. QED
            BY <1>1, <3>1, MsgSeqnumAssumption DEF WithinLimit
    <2>5. \A j \in 1..Len(queues') : WithinLimit(queues'[j])
        BY <2>2, <2>4 DEF LimitInv, QueueLimits, Types, PlaceTypes
    <2>6. QueueLimits'
        BY <1>1, <2>5 DEF QueueLimits, WithinLimit, Sysv, Used, RequestsIn
    <2>7. mine' \in 0..Len(queues')
        <3>1. CASE SvMsgget
            BY <3>1 DEF SvMsgget, Types, PlaceTypes
        <3>2. CASE SvMqOpen
            BY <3>2 DEF SvMqOpen, Types, PlaceTypes, LimitInv
        <3>3. CASE SvTruncate \/ SvPublish \/ SvOpenClient \/ SvKilled
            BY <3>3 DEF SvTruncate, SvPublish, SvOpenClient, SvKilled, LimitInv
        <3>4. QED
            BY <1>2, <3>1, <3>2, <3>3
    <2>8. MailLimits'
        BY <2>1 DEF LimitInv, MailLimits
    <2>9. QED
        BY <2>3, <2>6, <2>7, <2>8 DEF LimitInv
<1>3. CASE SvReceive
    <2>1. PICK i0 \in 1..Len(queues[mine]) : queues' = [queues EXCEPT ![mine] = RemoveAt(@, i0)]
        BY <1>3 DEF SvReceive
    <2>2. mine \in 1..Len(queues) /\ mine' = mine /\ cq' = cq /\ spc' \in {"open", "send"}
        BY <1>3 DEF SvReceive, Types, ProcessTypes
    <2>3. QueueLimits' /\ Len(queues') = Len(queues)
        BY <1>1, <2>1, <2>2, TakenWithin, RemoveTypes DEF LimitInv
    <2>4. req' \in Requests
        BY <2>2 DEF Types, ProcessTypes
    <2>5. MailLimits'
        BY <2>2 DEF LimitInv, MailLimits
    <2>6. QED
        BY <2>2, <2>3, <2>4, <2>5 DEF LimitInv
<1>4. CASE SvSend
    <2>1. PICK m : m = Answer(req.pid, req.len, seqNum) /\ m \in Answers /\ req.pid \in Pid /\ SendAnswer(m)
        BY <1>4, AnswerType DEF SvSend
    <2>2. mine \in 1..Len(queues) /\ mine' = mine /\ req' = req
        BY <1>4 DEF SvSend, Types, ProcessTypes
    <2>3. CASE Sysv
        <3>1. Send(mine, m) /\ cq' = cq /\ m \in InQueue
            BY <2>1, <2>3 DEF SendAnswer, InQueue
        <3>2. QueueLimits' /\ Len(queues') = Len(queues)
            BY <1>1, <2>2, <3>1, SentWithin, SendTypes DEF LimitInv
        <3>3. MailLimits'
            BY <3>1 DEF LimitInv, MailLimits
        <3>4. QED
            BY <2>2, <3>2, <3>3 DEF LimitInv
    <2>4. CASE ~Sysv
        <3>1. /\ queues' = queues /\ \A c \in cq[req.pid] : Fits(c.msgs, m)
              /\ cq' = [cq EXCEPT ![req.pid] =
                    {IF c.run = cfd THEN [run |-> cfd, msgs |-> Append(c.msgs, m)] ELSE c : c \in @}]
            BY <2>1, <2>4 DEF SendAnswer
        <3>2. ASSUME NEW p \in Pid, NEW c \in cq'[p] PROVE Len(c.msgs) <= MaxMsg
            <4>1. CASE p # req.pid
                BY <3>1, <3>2, <4>1 DEF Types, PlaceTypes, LimitInv, MailLimits
            <4>2. CASE p = req.pid
                <5>1. PICK d \in cq[p] :
                          c = IF d.run = cfd THEN [run |-> cfd, msgs |-> Append(d.msgs, m)] ELSE d
                    BY <3>1, <3>2, <4>2 DEF Types, PlaceTypes
                <5>2. d.msgs \in Seq(Answers) /\ Len(d.msgs) < MaxMsg
                    BY <2>4, <3>1, <4>2 DEF Fits, Types, PlaceTypes
                <5>3. Len(Append(d.msgs, m)) = Len(d.msgs) + 1 /\ Len(d.msgs) \in Nat
                    BY <2>1, <5>2
                <5>4. c.msgs = d.msgs \/ c.msgs = Append(d.msgs, m)
                    <6>1. CASE d.run = cfd
                        <7>1. c = [run |-> cfd, msgs |-> Append(d.msgs, m)]
                            BY <5>1, <6>1
                        <7>2. QED
                            BY <7>1
                    <6>2. CASE d.run # cfd
                        BY <5>1, <6>2
                    <6>3. QED
                        BY <6>1, <6>2
                <5>5. QED
                    BY <1>1, <5>2, <5>3, <5>4
            <4>3. QED
                BY <4>1, <4>2
        <3>3. MailLimits'
            BY <3>2 DEF MailLimits
        <3>4. QueueLimits'
            BY <1>1, <3>1 DEF LimitInv, QueueLimits, WithinLimit, Sysv, Used, RequestsIn
        <3>5. QED
            BY <2>2, <3>1, <3>3, <3>4 DEF LimitInv
    <2>5. QED
        BY <2>3, <2>4
<1>5. QED
    BY <1>2, <1>3, <1>4 DEF SvStep

LEMMA ClientLimits ==
    ASSUME Types, LimitInv, NEW p \in Pid,
           ClReadFile(p) \/ ClCreateQueue(p) \/ ClStep(p) \/ ClKilled(p) \/ Cleanup(p)
    PROVE  LimitInv'
<1> USE DEF clients, history, server
<1>1. variant' = variant /\ req' = req /\ mine' = mine
    BY DEF ClReadFile, ClCreateQueue, ClStep, ClOpenServer, ClSend, ClReceive, ClKilled, Cleanup
<1>2. \A q \in Pid : \A c \in cq'[q] : c.msgs = <<>> \/ c \in cq[q]
    BY DEF ClReadFile, ClCreateQueue, ClStep, ClOpenServer, ClSend, ClReceive, ClKilled, Cleanup,
       Types, PlaceTypes
<1>3. MailLimits'
    <2>1. Len(<<>>) = 0 /\ 0 <= MaxMsg
        BY MsgSeqnumAssumption
    <2>2. QED
        BY <1>2, <2>1 DEF LimitInv, MailLimits
<1>4. QueueLimits' /\ Len(queues') = Len(queues)
    <2>1. CASE ClSend(p)
        <3>1. PICK m \in InQueue, k \in 1..Len(queues) : Send(k, m)
            <4>1. Request(p, len[p]) \in InQueue /\ cid[p] \in 1..Len(queues)
                BY <2>1 DEF ClSend, Request, Requests, InQueue, Types, ProcessTypes
            <4>2. QED
                BY <2>1, <4>1 DEF ClSend
        <3>2. QED
            BY <1>1, <3>1, SentWithin, SendTypes DEF LimitInv
    <2>2. CASE ClReceive(p) /\ Sysv
        <3>1. PICK k \in 1..Len(queues) : k = cid[p]
            BY <2>2 DEF ClReceive, Types, ProcessTypes
        <3>2. PICK i \in 1..Len(queues[k]) : queues' = [queues EXCEPT ![k] = RemoveAt(@, i)]
            BY <2>2, <3>1 DEF ClReceive
        <3>3. QED
            BY <1>1, <3>2, TakenWithin, RemoveTypes DEF LimitInv
    <2>3. CASE queues' = queues
        BY <1>1, <2>3 DEF LimitInv, QueueLimits, WithinLimit, Sysv, Used, RequestsIn
    <2>4. queues' = queues \/ ClSend(p) \/ (ClReceive(p) /\ Sysv)
        BY DEF ClReadFile, ClCreateQueue, ClStep, ClOpenServer, ClReceive, ClKilled, Cleanup
    <2>5. QED
        BY <2>1, <2>2, <2>3, <2>4
<1>5. QED
    BY <1>1, <1>3, <1>4 DEF LimitInv

\* The programs stay within their types and no queue is beyond its limit.
THEOREM TypeCorrect == Spec => []TypeOK
<1>1. Init => LimitInv
    BY DEF Init, LimitInv, QueueLimits, MailLimits
<1>2. IInv /\ LimitInv /\ [Next]_vars => LimitInv'
    <2> SUFFICES ASSUME Types, Types', LimitInv, [Next]_vars PROVE LimitInv'
        BY NextInv DEF IInv
    <2>1. CASE SvStep \/ SvKilled
        BY <2>1, ServerLimits
    <2>2. ASSUME NEW p \in Pid, ClReadFile(p) \/ ClCreateQueue(p) \/ ClStep(p) \/ ClKilled(p) \/ Cleanup(p)
          PROVE  LimitInv'
        BY <2>2, ClientLimits
    <2>3. CASE UNCHANGED vars
        BY <2>3 DEF vars, server, clients, history, LimitInv, QueueLimits, MailLimits, WithinLimit,
           Sysv, Used, RequestsIn, Requests, NoRequest
    <2>4. QED
        BY <2>1, <2>2, <2>3 DEF Next
<1>3. IInv /\ LimitInv => TypeOK
    <2> SUFFICES ASSUME Types, LimitInv PROVE TypeOK
        BY DEF IInv
    <2>1. queues \in Seq(Seq(Requests \cup Answers))
        BY DEF Types, PlaceTypes, InQueue
    <2>2. \A k \in DOMAIN queues : IF Sysv THEN Used(queues[k]) <= Room ELSE Len(queues[k]) <= MaxMsg
        BY <2>1 DEF LimitInv, QueueLimits, WithinLimit
    <2>3. ASSUME NEW p \in Pid
          PROVE  /\ Cardinality(cq[p]) <= 1
                 /\ \A c \in cq[p] : c.msgs \in Seq(Answers) /\ Len(c.msgs) <= MaxMsg
        <3>1. cq[p] = {} \/ \E c : cq[p] = {c}
            <4>1. \A c, d \in cq[p] : c = d
                BY DEF Types, PlaceTypes
            <4>2. ASSUME NEW c \in cq[p] PROVE cq[p] = {c}
                BY <4>1
            <4>3. QED
                BY <4>2
        <3>2. Cardinality(cq[p]) <= 1
            <4>1. cq[p] = {} => Cardinality(cq[p]) = 0
                BY FS_EmptySet
            <4>2. \A c : Cardinality({c}) = 1
                BY FS_Singleton
            <4>3. QED
                BY <3>1, <4>1, <4>2
        <3>3. QED
            BY <3>2 DEF Types, PlaceTypes, LimitInv, MailLimits
    <2>4. QED
        BY <2>1, <2>2, <2>3 DEF TypeOK, Types, PlaceTypes, ProcessTypes, LimitInv
<1>4. QED
    BY <1>1, <1>2, <1>3, GrantInvariant, NextInv, PTL DEF Spec

-----------------------------------------------------------------------------
(* Room for an answer.  A message in a shared queue, or the request the    *)
(* server has taken from it, belongs to a client that waits or to one that *)
(* was killed; what is under way for a client with a queue of its own is   *)
(* one request or answer, and one more after a kill.                       *)

WaitAt(k) == {p \in Pid : cpc[p] = "wait" /\ cid[p] = k}
Working(k) == IF spc \in {"open", "send"} /\ mine = k THEN 1 ELSE 0
Due(p) == (IF p \in killed THEN 1 ELSE 0) + (IF cpc[p] = "wait" THEN 1 ELSE 0)
SharedRoom ==
    \A k \in 1..Len(queues) : Len(queues[k]) + Working(k) <= Cardinality(WaitAt(k)) + Cardinality(killed)
OwnRoom ==
    \A p \in Pid : Out(p) <= Due(p) /\ \A c \in cq[p] : Len(c.msgs) + Out(p) <= Due(p)
RoomInv == killed \subseteq Pid /\ (IF Sysv THEN SharedRoom ELSE OwnRoom)

\* The number of clients that wait, and of those that were killed.
LEMMA WaitFacts ==
    ASSUME NEW k, killed \subseteq Pid
    PROVE  /\ IsFiniteSet(Pid) /\ Cardinality(Pid) \in Nat
           /\ IsFiniteSet(WaitAt(k)) /\ Cardinality(WaitAt(k)) \in Nat /\ Cardinality(WaitAt(k)) <= Cardinality(Pid)
           /\ IsFiniteSet(killed) /\ Cardinality(killed) \in Nat
<1>1. IsFiniteSet(Pid) /\ Cardinality(Pid) \in Nat
    BY MsgSeqnumAssumption, FS_CardinalityType
<1>2. WaitAt(k) \in SUBSET Pid /\ killed \in SUBSET Pid
    BY DEF WaitAt
<1>3. IsFiniteSet(WaitAt(k)) /\ IsFiniteSet(killed) /\ Cardinality(WaitAt(k)) <= Cardinality(Pid)
    BY <1>1, <1>2, FS_Subset
<1>4. QED
    BY <1>1, <1>3, FS_CardinalityType

LEMMA OutNatNext ==
    ASSUME NEW p, IsFiniteSet(Asked(p)')
    PROVE  Out(p)' \in Nat
<1>1. PICK b : b = Cardinality(Asked(p)') /\ Out(p)' = b + (IF Handled(p)' THEN 1 ELSE 0)
    BY DEF Out
<1>2. b \in Nat
    BY <1>1, FS_CardinalityType
<1>3. QED
    BY <1>1, <1>2

LEMMA ServerRoom ==
    ASSUME Types, Types', Finite, RoomInv, SvStep \/ SvKilled
    PROVE  RoomInv'
<1> USE DEF clients, history, server
<1>1. variant' = variant /\ killed' = killed /\ cpc' = cpc /\ cid' = cid
    BY DEF SvStep, SvMsgget, SvMqOpen, SvTruncate, SvPublish, SvReceive, SvOpenClient, SvSend, SvKilled
<1>2. killed' \subseteq Pid
    BY <1>1 DEF RoomInv
<1>3. ASSUME Sysv PROVE SharedRoom'
    <2>1. ASSUME NEW k \in 1..Len(queues')
          PROVE  Len(queues'[k]) + Working(k)' <= Cardinality(WaitAt(k)) + Cardinality(killed)
        <3>1. PICK w \in Nat : w = Cardinality(WaitAt(k)) + Cardinality(killed)
            BY WaitFacts DEF RoomInv
        <3>2. \A j \in 1..Len(queues) : queues[j] \in Seq(InQueue) /\ Len(queues[j]) \in Nat
            BY DEF Types, PlaceTypes
        <3>3. k \in 1..Len(queues) => Len(queues[k]) + Working(k) <= w
            BY <1>3, <3>1 DEF RoomInv, SharedRoom
        <3>4. CASE SvMsgget \/ SvMqOpen \/ SvTruncate \/ SvPublish \/ SvOpenClient \/ SvKilled
            <4>1. queues' = queues \/ queues' = Append(queues, <<>>)
                BY <3>4 DEF SvMsgget, SvMqOpen, SvTruncate, SvPublish, SvOpenClient, SvKilled
            <4>2. Working(k)' = 0 \/ (Working(k) = 1 /\ Working(k)' = 1 /\ queues' = queues)
                BY <3>4 DEF Working, SvMsgget, SvMqOpen, SvTruncate, SvPublish, SvOpenClient, SvKilled, Starting
            <4>3. CASE k \in 1..Len(queues)
                <5>1. queues'[k] = queues[k]
                    <6>1. queues \in Seq(Seq(InQueue)) /\ <<>> \in Seq(InQueue)
                        BY DEF Types, PlaceTypes
                    <6>2. Append(queues, <<>>)[k] = queues[k]
                        BY <4>3, <6>1
                    <6>3. QED
                        BY <4>1, <6>2
                <5>2. Working(k) \in Nat
                    BY DEF Working
                <5>3. QED
                    BY <3>1, <3>2, <3>3, <4>2, <4>3, <5>1, <5>2
            <4>4. CASE k \notin 1..Len(queues)
                <5>1. queues'[k] = <<>> /\ queues' # queues
                    BY <2>1, <4>1, <4>4 DEF Types, PlaceTypes
                <5>2. Len(queues'[k]) = 0
                    BY <5>1
                <5>3. QED
                    BY <3>1, <4>2, <5>1, <5>2
            <4>5. QED
                BY <4>3, <4>4
        <3>5. CASE SvReceive
            <4>1. PICK i0 \in 1..Len(queues[mine]) : queues' = [queues EXCEPT ![mine] = RemoveAt(@, i0)]
                BY <3>5 DEF SvReceive
            <4>2. mine \in 1..Len(queues) /\ mine' = mine /\ spc = "receive"
                BY <3>5 DEF SvReceive, Types, ProcessTypes
            <4>3. k \in 1..Len(queues)
                BY <4>1, <4>2, RemoveTypes
            <4>4. CASE k = mine
                <5>1. Len(queues'[k]) = Len(queues[k]) - 1
                    <6>1. queues'[k] = RemoveAt(queues[k], i0)
                        BY <4>1, <4>3, <4>4 DEF Types, PlaceTypes
                    <6>2. queues[k] \in Seq(InQueue) /\ i0 \in 1..Len(queues[k])
                        BY <3>2, <4>3, <4>4
                    <6>3. QED
                        BY <6>1, <6>2, RemoveFacts
                <5>2. Working(k) = 0 /\ Working(k)' \in {0, 1}
                    BY <4>2 DEF Working
                <5>3. QED
                    BY <3>1, <3>2, <3>3, <4>3, <5>1, <5>2
            <4>5. CASE k # mine
                <5>1. queues'[k] = queues[k] /\ Working(k)' = 0 /\ Working(k) = 0
                    BY <4>1, <4>2, <4>3, <4>5 DEF Working, Types, PlaceTypes
                <5>2. QED
                    BY <3>1, <3>3, <4>3, <5>1
            <4>6. QED
                BY <4>4, <4>5
        <3>6. CASE SvSend
            <4>1. PICK m : queues' = [queues EXCEPT ![mine] = Append(@, m)]
                BY <1>3, <3>6 DEF SvSend, SendAnswer, Send
            <4>2. mine \in 1..Len(queues) /\ mine' = mine /\ spc = "send" /\ spc' = "receive"
                BY <3>6 DEF SvSend, Types, ProcessTypes
            <4>3. k \in 1..Len(queues)
                BY <2>1, <4>1, <4>2 DEF Types, PlaceTypes
            <4>4. CASE k = mine
                <5>1. Len(queues'[k]) = Len(queues[k]) + 1
                    <6>1. queues'[k] = Append(queues[k], m)
                        BY <4>1, <4>3, <4>4 DEF Types, PlaceTypes
                    <6>2. queues[k] \in Seq(InQueue)
                        BY <3>2, <4>3
                    <6>3. QED
                        BY <6>1, <6>2
                <5>2. Working(k) = 1 /\ Working(k)' = 0
                    BY <4>2, <4>4 DEF Working
                <5>3. QED
                    BY <3>1, <3>2, <3>3, <4>3, <5>1, <5>2
            <4>5. CASE k # mine
                <5>1. queues'[k] = queues[k] /\ Working(k)' = 0 /\ Working(k) = 0
                    BY <4>1, <4>2, <4>3, <4>5 DEF Working, Types, PlaceTypes
                <5>2. QED
                    BY <3>1, <3>3, <4>3, <5>1
            <4>6. QED
                BY <4>4, <4>5
        <3>7. QED
            BY <3>1, <3>4, <3>5, <3>6 DEF SvStep
    <2>2. \A k : WaitAt(k)' = WaitAt(k)
        BY <1>1 DEF WaitAt
    <2>3. QED
        BY <1>1, <2>1, <2>2 DEF SharedRoom
<1>4. ASSUME ~Sysv PROVE OwnRoom'
    <2> SUFFICES ASSUME NEW p \in Pid
                 PROVE  /\ Out(p)' <= Due(p)'
                        /\ \A c \in cq'[p] : Len(c.msgs) + Out(p)' <= Due(p)'
        BY DEF OwnRoom
    <2>1. Due(p)' = Due(p) /\ Due(p) \in Nat /\ Out(p) \in Nat
        BY <1>1, OutType DEF Due, Finite
    <2>2. IsFiniteSet(Asked(p)') /\ Out(p)' <= Out(p) /\ (SvSend /\ req.pid = p => Out(p)' <= Out(p) - 1)
        BY ServerOut DEF Fewer
    <2>3. Out(p)' \in Nat
        BY <2>2, OutNatNext
    <2>4. Out(p) <= Due(p) /\ \A c \in cq[p] : Len(c.msgs) + Out(p) <= Due(p) /\ Len(c.msgs) \in Nat
        BY <1>4 DEF RoomInv, OwnRoom, Types, PlaceTypes
    <2>5. CASE cq'[p] = cq[p]
        BY <2>1, <2>2, <2>3, <2>4, <2>5
    <2>6. CASE cq'[p] # cq[p]
        <3>1. SvSend
            BY <2>6 DEF SvStep, SvMsgget, SvMqOpen, SvTruncate, SvPublish, SvReceive, SvOpenClient, SvKilled
        <3>2. PICK m \in Answers :
                  cq' = [cq EXCEPT ![req.pid] =
                    {IF c.run = cfd THEN [run |-> cfd, msgs |-> Append(c.msgs, m)] ELSE c : c \in @}]
            BY <1>4, <3>1, AnswerType DEF SvSend, SendAnswer
        <3>3. req.pid = p
            BY <2>6, <3>2 DEF Types, PlaceTypes
        <3>4. ASSUME NEW c \in cq'[p] PROVE Len(c.msgs) + Out(p)' <= Due(p)
            <4>1. PICK d \in cq[p] :
                      c = IF d.run = cfd THEN [run |-> cfd, msgs |-> Append(d.msgs, m)] ELSE d
                BY <3>2, <3>3, <3>4 DEF Types, PlaceTypes
            <4>2. d.msgs \in Seq(Answers)
                BY DEF Types, PlaceTypes
            <4>3. c.msgs = d.msgs \/ c.msgs = Append(d.msgs, m)
                <5>1. CASE d.run = cfd
                    <6>1. c = [run |-> cfd, msgs |-> Append(d.msgs, m)]
                        BY <4>1, <5>1
                    <6>2. QED
                        BY <6>1
                <5>2. CASE d.run # cfd
                    BY <4>1, <5>2
                <5>3. QED
                    BY <5>1, <5>2
            <4>4. Len(Append(d.msgs, m)) = Len(d.msgs) + 1 /\ Len(d.msgs) \in Nat
                BY <4>2
            <4>5. Len(c.msgs) \in Nat /\ Len(c.msgs) <= Len(d.msgs) + 1
                BY <4>3, <4>4
            <4>6. Out(p)' <= Out(p) - 1 /\ Len(d.msgs) + Out(p) <= Due(p)
                BY <2>2, <2>4, <3>1, <3>3
            <4>7. QED
                BY <2>1, <2>3, <4>4, <4>5, <4>6
        <3>5. QED
            BY <2>1, <2>2, <2>3, <2>4, <3>4
    <2>7. QED
        BY <2>5, <2>6
<1>5. Sysv' = Sysv
    BY <1>1 DEF Sysv
<1>6. QED
    BY <1>2, <1>3, <1>4, <1>5 DEF RoomInv

\* What a client's step does to the number of those that wait at a queue.
LEMMA WaitAtFacts ==
    ASSUME Types, NEW p \in Pid, NEW k, killed \subseteq Pid,
           \A q \in Pid \ {p} : cpc'[q] = cpc[q] /\ cid'[q] = cid[q]
    PROVE  /\ (cpc[p] = "wait" => cpc'[p] = "wait" /\ cid'[p] = cid[p]) =>
                Cardinality(WaitAt(k)) <= Cardinality(WaitAt(k)')
           /\ Cardinality(WaitAt(k)) - 1 <= Cardinality(WaitAt(k)')
           /\ cpc[p] # "wait" /\ cpc'[p] = "wait" /\ cid'[p] = k =>
                Cardinality(WaitAt(k)) + 1 <= Cardinality(WaitAt(k)')
           /\ cid[p] # k => Cardinality(WaitAt(k)) <= Cardinality(WaitAt(k)')
           /\ Cardinality(WaitAt(k)') \in Nat
<1>1. PICK S : S = WaitAt(k)
    OBVIOUS
<1>2. PICK T : T = WaitAt(k)'
    OBVIOUS
<1>3. IsFiniteSet(S) /\ IsFiniteSet(T) /\ Cardinality(S) \in Nat /\ Cardinality(T) \in Nat
    <2>1. T \in SUBSET Pid
        BY <1>2 DEF WaitAt
    <2>2. QED
        BY <1>1, <2>1, WaitFacts, FS_Subset, FS_CardinalityType
<1>4. S \ {p} \subseteq T
    BY <1>1, <1>2 DEF WaitAt
<1>5. p \in S <=> cpc[p] = "wait" /\ cid[p] = k
    BY <1>1 DEF WaitAt
<1>6. p \in T <=> cpc'[p] = "wait" /\ cid'[p] = k
    BY <1>2 DEF WaitAt
<1>7. S \subseteq T => Cardinality(S) <= Cardinality(T)
    BY <1>3, FS_Subset
<1>8. /\ IsFiniteSet(S \ {p})
      /\ Cardinality(S \ {p}) = IF p \in S THEN Cardinality(S) - 1 ELSE Cardinality(S)
    BY <1>3, FS_RemoveElement
<1>9. Cardinality(S \ {p}) <= Cardinality(T)
    BY <1>3, <1>4, FS_Subset
<1>10. Cardinality(S) - 1 <= Cardinality(T)
    BY <1>3, <1>8, <1>9
<1>11. p \notin S /\ p \in T => Cardinality(S) + 1 <= Cardinality(T)
    <2>1. /\ IsFiniteSet(S \cup {p})
          /\ Cardinality(S \cup {p}) = IF p \in S THEN Cardinality(S) ELSE Cardinality(S) + 1
        BY <1>3, FS_AddElement
    <2>2. p \in T => Cardinality(S \cup {p}) <= Cardinality(T)
        BY <1>3, <1>4, FS_Subset
    <2>3. QED
        BY <1>3, <2>1, <2>2
<1>12. (cpc[p] = "wait" => cpc'[p] = "wait" /\ cid'[p] = cid[p]) => Cardinality(S) <= Cardinality(T)
    BY <1>4, <1>5, <1>6, <1>7
<1>13. cid[p] # k => Cardinality(S) <= Cardinality(T)
    BY <1>4, <1>5, <1>7
<1>14. QED
    BY <1>1, <1>2, <1>3, <1>5, <1>6, <1>10, <1>11, <1>12, <1>13

LEMMA ClientRoom ==
    ASSUME Types, Types', Finite, RoomInv, NEW p \in Pid,
           ClReadFile(p) \/ ClCreateQueue(p) \/ ClStep(p) \/ ClKilled(p) \/ Cleanup(p)
    PROVE  RoomInv'
<1> USE DEF clients, history, server
<1>1. variant' = variant /\ spc' = spc /\ mine' = mine
    BY DEF ClReadFile, ClCreateQueue, ClStep, ClOpenServer, ClSend, ClReceive, ClKilled, Cleanup
<1>2. killed' = IF ClKilled(p) THEN killed \cup {p} ELSE killed
    BY DEF ClReadFile, ClCreateQueue, ClStep, ClOpenServer, ClSend, ClReceive, ClKilled, Cleanup
<1>3. killed \subseteq Pid /\ killed' \subseteq Pid
    BY <1>2 DEF RoomInv
<1>4. \A q \in Pid \ {p} : cpc'[q] = cpc[q] /\ cid'[q] = cid[q]
    BY DEF ClReadFile, ClCreateQueue, ClStep, ClOpenServer, ClSend, ClReceive, ClKilled, Cleanup,
       Goto, Begin, Types, ProcessTypes
<1>5. ASSUME Sysv PROVE SharedRoom'
    <2>1. ASSUME NEW k \in 1..Len(queues')
          PROVE  Len(queues'[k]) + Working(k)' <= Cardinality(WaitAt(k)') + Cardinality(killed')
        <3>1. PICK w, d, e, f : /\ w = Cardinality(WaitAt(k)) /\ d = Cardinality(killed)
                                /\ e = Cardinality(WaitAt(k)') /\ f = Cardinality(killed')
            OBVIOUS
        <3>2. /\ w \in Nat /\ d \in Nat /\ e \in Nat
              /\ (cpc[p] = "wait" => cpc'[p] = "wait" /\ cid'[p] = cid[p]) => w <= e
              /\ w - 1 <= e
              /\ cpc[p] # "wait" /\ cpc'[p] = "wait" /\ cid'[p] = k => w + 1 <= e
              /\ cid[p] # k => w <= e
            BY <1>3, <1>4, <3>1, WaitFacts, WaitAtFacts
        <3>3. f = IF ClKilled(p) THEN d + 1 ELSE d
            <4>1. CASE ClKilled(p)
                <5>1. p \notin killed /\ IsFiniteSet(killed) /\ killed' = killed \cup {p}
                    BY <1>2, <1>3, <4>1, WaitFacts DEF ClKilled
                <5>2. QED
                    BY <3>1, <4>1, <5>1, FS_AddElement
            <4>2. CASE ~ClKilled(p)
                BY <1>2, <3>1, <4>2
            <4>3. QED
                BY <4>1, <4>2
        <3>4. Working(k)' = Working(k) /\ Working(k) \in Nat
            BY <1>1 DEF Working
        <3>5. \A j \in 1..Len(queues) : queues[j] \in Seq(InQueue) /\ Len(queues[j]) \in Nat
            BY DEF Types, PlaceTypes
        <3>6. k \in 1..Len(queues) => Len(queues[k]) + Working(k) <= w + d
            BY <1>5, <3>1 DEF RoomInv, SharedRoom
        <3>7. ASSUME NEW n \in Nat, n + w + d <= Len(queues[k]) + e + f, k \in 1..Len(queues), f \in Nat,
                      Len(queues'[k]) = n
               PROVE  n + Working(k)' <= e + f
            <4>1. PICK l \in Nat, u \in Nat : l = Len(queues[k]) /\ u = Working(k) /\ Working(k)' = u
                BY <3>4, <3>5, <3>7
            <4>2. l + u <= w + d /\ n + w + d <= l + e + f
                BY <3>6, <3>7, <4>1
            <4>3. n + u <= e + f
                BY <3>2, <3>7, <4>1, <4>2
            <4>4. QED
                BY <4>1, <4>3
        <3>8. CASE ClReadFile(p) \/ ClCreateQueue(p) \/ ClOpenServer(p) \/ Cleanup(p)
            <4>1. queues' = queues /\ cpc[p] \in {"idle", "open"} /\ ~ClKilled(p)
                BY <3>8 DEF ClReadFile, ClCreateQueue, ClOpenServer, Cleanup, Begin, ClKilled
            <4>2. w <= e /\ f = d
                BY <3>2, <3>3, <4>1
            <4>3. QED
                BY <3>1, <3>2, <3>4, <3>5, <3>6, <4>1, <4>2
        <3>9. CASE ClKilled(p)
            <4>1. queues' = queues
                BY <3>9 DEF ClKilled
            <4>2. QED
                BY <3>1, <3>2, <3>3, <3>4, <3>5, <3>6, <3>9, <4>1
        <3>10. CASE ClSend(p)
            <4>1. /\ cpc[p] = "send" /\ cpc'[p] = "wait" /\ cid' = cid /\ cid[p] \in 1..Len(queues)
                  /\ queues' = [queues EXCEPT ![cid[p]] = Append(@, Request(p, len[p]))]
                  /\ ~ClKilled(p)
                BY <3>10 DEF ClSend, Send, Goto, Types, ProcessTypes, ClKilled
            <4>2. k \in 1..Len(queues)
                BY <2>1, <4>1 DEF Types, PlaceTypes
            <4>3. CASE k = cid[p]
                <5>1. Len(queues'[k]) = Len(queues[k]) + 1
                    <6>1. queues'[k] = Append(queues[k], Request(p, len[p]))
                        BY <4>1, <4>2, <4>3 DEF Types, PlaceTypes
                    <6>2. queues[k] \in Seq(InQueue)
                        BY <3>5, <4>2
                    <6>3. QED
                        BY <6>1, <6>2
                <5>2. w + 1 <= e /\ f = d
                    BY <3>2, <3>3, <4>1, <4>3
                <5>3. PICK n \in Nat : n = Len(queues[k])
                    BY <3>5, <4>2
                <5>4. n + 1 + w + d <= n + e + f
                    BY <3>2, <5>2
                <5>5. QED
                    BY <3>1, <3>2, <3>7, <4>2, <5>1, <5>2, <5>3, <5>4
            <4>4. CASE k # cid[p]
                <5>1. queues'[k] = queues[k] /\ w <= e /\ f = d
                    BY <3>2, <3>3, <4>1, <4>2, <4>4 DEF Types, PlaceTypes
                <5>2. PICK n \in Nat : n = Len(queues[k])
                    BY <3>5, <4>2
                <5>3. n + w + d <= n + e + f
                    BY <3>2, <5>1
                <5>4. QED
                    BY <3>1, <3>2, <3>7, <4>2, <5>1, <5>2, <5>3
            <4>5. QED
                BY <4>3, <4>4
        <3>11. CASE ClReceive(p)
            <4>1. cid[p] \in 1..Len(queues) /\ cpc'[p] = "idle" /\ ~(ClKilled(p) /\ f # d)
                BY <3>11, <3>1 DEF ClReceive, Goto, Types, ProcessTypes
            <4>2. PICK i0 \in 1..Len(queues[cid[p]]) : queues' = [queues EXCEPT ![cid[p]] = RemoveAt(@, i0)]
                BY <1>5, <3>11 DEF ClReceive
            <4>3. k \in 1..Len(queues)
                BY <2>1, <4>1, <4>2 DEF Types, PlaceTypes
            <4>4. f = d
                BY <3>3, <4>1
            <4>5. CASE k = cid[p]
                <5>1. Len(queues'[k]) = Len(queues[k]) - 1
                    <6>1. queues'[k] = RemoveAt(queues[k], i0)
                        BY <4>2, <4>3, <4>5 DEF Types, PlaceTypes
                    <6>2. queues[k] \in Seq(InQueue) /\ i0 \in 1..Len(queues[k])
                        BY <3>5, <4>2, <4>3, <4>5
                    <6>3. QED
                        BY <6>1, <6>2, RemoveFacts
                <5>2. PICK n \in Nat : n = Len(queues[k]) /\ n >= 1
                    BY <3>5, <4>2, <4>3, <4>5
                <5>3. n - 1 + w + d <= n + e + f /\ n - 1 \in Nat
                    BY <3>2, <4>4, <5>2
                <5>4. QED
                    BY <3>1, <3>2, <3>7, <4>3, <4>4, <5>1, <5>2, <5>3
            <4>6. CASE k # cid[p]
                <5>1. queues'[k] = queues[k] /\ w <= e
                    BY <3>2, <4>2, <4>3, <4>6 DEF Types, PlaceTypes
                <5>2. PICK n \in Nat : n = Len(queues[k])
                    BY <3>5, <4>3
                <5>3. n + w + d <= n + e + f
                    BY <3>2, <4>4, <5>1
                <5>4. QED
                    BY <3>1, <3>2, <3>7, <4>3, <4>4, <5>1, <5>2, <5>3
            <4>7. QED
                BY <4>5, <4>6
        <3>12. QED
            BY <3>8, <3>9, <3>10, <3>11 DEF ClStep
    <2>2. QED
        BY <2>1 DEF SharedRoom
<1>6. ASSUME ~Sysv PROVE OwnRoom'
    <2> SUFFICES ASSUME NEW q \in Pid
                 PROVE  /\ Out(q)' <= Due(q)'
                        /\ \A c \in cq'[q] : Len(c.msgs) + Out(q)' <= Due(q)'
        BY DEF OwnRoom
    <2>1. Due(q) \in Nat /\ Due(q)' \in Nat /\ Out(q) \in Nat
        BY OutType DEF Due, Finite
    <2>2. /\ IsFiniteSet(Asked(q)')
          /\ IF q = p /\ ClSend(p) THEN Out(q)' <= Out(q) + 1 ELSE Out(q)' <= Out(q)
        BY ClientOut
    <2>3. Out(q)' \in Nat
        BY <2>2, OutNatNext
    <2>4. Out(q) <= Due(q) /\ \A c \in cq[q] : Len(c.msgs) + Out(q) <= Due(q) /\ Len(c.msgs) \in Nat
        BY <1>6 DEF RoomInv, OwnRoom, Types, PlaceTypes
    <2>5. CASE q # p
        <3>1. cq'[q] = cq[q] /\ Due(q)' = Due(q)
            BY <1>2, <1>4, <2>5 DEF Due, ClReadFile, ClCreateQueue, ClStep, ClOpenServer, ClSend, ClReceive,
               ClKilled, Cleanup, Types, PlaceTypes
        <3>2. QED
            BY <2>1, <2>2, <2>3, <2>4, <2>5, <3>1
    <2>6. CASE q = p /\ ClSend(p)
        <3>1. cq' = cq /\ cpc[p] = "send" /\ cpc'[p] = "wait" /\ killed' = killed
            BY <2>6 DEF ClSend, Goto, Types, ProcessTypes
        <3>2. Due(p)' = Due(p) + 1
            BY <3>1 DEF Due
        <3>3. QED
            BY <2>1, <2>2, <2>3, <2>4, <2>6, <3>1, <3>2
    <2>7. CASE q = p /\ ClReceive(p)
        <3>1. PICK c \in cq[p] : c.msgs # <<>>
            BY <1>6, <2>7 DEF ClReceive
        <3>2. Len(c.msgs) >= 1 /\ Len(c.msgs) \in Nat
            BY <3>1 DEF Types, PlaceTypes
        <3>3. cq'[p] = {} /\ cpc[p] = "wait" /\ killed' = killed /\ cpc'[p] = "idle"
            BY <1>6, <2>7 DEF ClReceive, Goto, Types, PlaceTypes, ProcessTypes
        <3>4. Due(p)' = Due(p) - 1
            BY <3>3 DEF Due
        <3>5. Out(p)' <= Out(p)
            BY <2>2, <2>7, <3>3 DEF ClSend
        <3>6. Out(p) + 1 <= Due(p)
            BY <2>1, <2>4, <2>7, <3>1, <3>2
        <3>7. QED
            BY <2>1, <2>3, <2>7, <3>3, <3>4, <3>5, <3>6
    <2>8. CASE q = p /\ (ClReadFile(p) \/ ClCreateQueue(p) \/ ClOpenServer(p) \/ ClKilled(p) \/ Cleanup(p))
        <3>1. Due(p) <= Due(p)'
            <4>1. CASE ClKilled(p)
                BY <4>1 DEF ClKilled, Due, Goto, Types, ProcessTypes
            <4>2. CASE ClReadFile(p) \/ ClCreateQueue(p) \/ ClOpenServer(p) \/ Cleanup(p)
                <5>1. cpc[p] # "wait" /\ killed \subseteq killed'
                    BY <1>2, <4>2 DEF ClReadFile, ClCreateQueue, ClOpenServer, Cleanup, Begin
                <5>2. QED
                    BY <5>1 DEF Due
            <4>3. QED
                BY <2>8, <4>1, <4>2
        <3>2. ~ClSend(p)
            BY <2>8 DEF ClReadFile, ClCreateQueue, ClOpenServer, ClKilled, Cleanup, Begin, ClSend
        <3>3. \A c \in cq'[p] : c.msgs = <<>> \/ c \in cq[p]
            BY <2>8 DEF ClReadFile, ClCreateQueue, ClOpenServer, ClKilled, Cleanup, Types, PlaceTypes
        <3>4. Len(<<>>) = 0
            OBVIOUS
        <3>5. \A c \in cq'[p] : Len(c.msgs) = 0 \/ c \in cq[p]
            BY <3>3, <3>4
        <3>6. Out(q)' <= Out(q) /\ Due(q) <= Due(q)'
            BY <2>2, <2>8, <3>1, <3>2
        <3>7. QED
            BY <2>1, <2>3, <2>4, <2>8, <3>5, <3>6
    <2>9. QED
        BY <2>5, <2>6, <2>7, <2>8 DEF ClStep
<1>7. Sysv' = Sysv
    BY <1>1 DEF Sysv
<1>8. QED
    BY <1>3, <1>5, <1>6, <1>7 DEF RoomInv

\* An answer never waits for room in a shared queue that has room for a request
\* of every other client, those that were killed counted, and for one answer;
\* in a client's own queue it never waits.
THEOREM RoomForAnswers == Spec => []AnswersHaveRoom
<1>1. Init => RoomInv
    <2> SUFFICES ASSUME Init PROVE RoomInv
        OBVIOUS
    <2>1. SharedRoom
        BY DEF Init, SharedRoom
    <2>2. \A p \in Pid : Out(p) = 0 /\ Due(p) = 0 /\ cq[p] = {}
        <3>1. \A p \in Pid : Asked(p) = {} /\ ~Handled(p) /\ Due(p) = 0 /\ cq[p] = {}
            BY NothingAsked DEF Init, Handled, Due
        <3>2. QED
            BY <3>1, FS_EmptySet DEF Out
    <2>3. QED
        BY <2>1, <2>2 DEF RoomInv, OwnRoom, Init
<1>2. IInv /\ GrantInv /\ RoomInv /\ [Next]_vars => RoomInv'
    <2> SUFFICES ASSUME Types, Types', Finite, RoomInv, [Next]_vars PROVE RoomInv'
        BY NextInv DEF IInv, GrantInv
    <2>1. CASE SvStep \/ SvKilled
        BY <2>1, ServerRoom
    <2>2. ASSUME NEW p \in Pid, ClReadFile(p) \/ ClCreateQueue(p) \/ ClStep(p) \/ ClKilled(p) \/ Cleanup(p)
          PROVE  RoomInv'
        BY <2>2, ClientRoom
    <2>3. CASE UNCHANGED vars
        <3>1. /\ variant' = variant /\ spc' = spc /\ mine' = mine /\ queues' = queues /\ cpc' = cpc
              /\ cid' = cid /\ cq' = cq /\ killed' = killed /\ req' = req
            BY <2>3 DEF vars, server, clients, history
        <3>2. /\ \A k : Working(k)' = Working(k) /\ WaitAt(k)' = WaitAt(k)
              /\ \A p : Due(p)' = Due(p) /\ Asked(p)' = Asked(p) /\ Handled(p)' = Handled(p)
            BY <3>1 DEF Working, WaitAt, Due, Asked, Holds, Handled
        <3>3. \A p : Out(p)' = Out(p)
            BY <3>2 DEF Out
        <3>4. SharedRoom' = SharedRoom /\ OwnRoom' = OwnRoom /\ Sysv' = Sysv
            BY <3>1, <3>2, <3>3 DEF SharedRoom, OwnRoom, Sysv
        <3>5. QED
            BY <3>1, <3>4 DEF RoomInv
    <2>4. QED
        BY <2>1, <2>2, <2>3 DEF Next
<1>3. IInv /\ GrantInv /\ RoomInv => AnswersHaveRoom
    <2> SUFFICES ASSUME Types, Finite, RoomInv, spc = "send"
                 PROVE  IF Sysv THEN Room >= 2 * (Senders - 1) + 1 => Used(queues[mine]) < Room
                        ELSE \A c \in cq[req.pid] : Len(c.msgs) < MaxMsg
        BY DEF AnswersHaveRoom, IInv, GrantInv
    <2>1. CASE Sysv
        <3>1. mine \in 1..Len(queues) /\ queues[mine] \in Seq(InQueue) /\ Working(mine) = 1
            BY DEF Types, PlaceTypes, ProcessTypes, Working
        <3>2. PICK l, w, d, n : /\ l = Len(queues[mine]) /\ w = Cardinality(WaitAt(mine))
                                /\ d = Cardinality(killed) /\ n = Cardinality(Pid)
            OBVIOUS
        <3>3. l \in Nat /\ w \in Nat /\ d \in Nat /\ n \in Nat /\ w <= n
            BY <3>1, <3>2, WaitFacts DEF RoomInv
        <3>4. l + 1 <= w + d
            BY <2>1, <3>1, <3>2 DEF RoomInv, SharedRoom
        <3>5. Used(queues[mine]) \in Nat /\ Used(queues[mine]) <= 2 * l
            BY <3>1, <3>2, UsedFacts
        <3>6. Senders = n + d
            BY <3>2 DEF Senders
        <3>7. 2 * l <= 2 * (n + d - 1)
            BY <3>3, <3>4
        <3>8. QED
            BY <2>1, <3>3, <3>5, <3>6, <3>7, MsgSeqnumAssumption
    <2>2. CASE ~Sysv
        <3> SUFFICES ASSUME NEW c \in cq[req.pid] PROVE Len(c.msgs) < MaxMsg
            BY <2>2
        <3>1. req.pid \in Pid /\ Handled(req.pid)
            BY AnswerType DEF Handled
        <3>2. Out(req.pid) \in Nat /\ Out(req.pid) >= 1
            <4>1. Cardinality(Asked(req.pid)) \in Nat
                BY <3>1, OutType DEF Finite
            <4>2. QED
                BY <3>1, <4>1 DEF Out
        <3>3. Len(c.msgs) \in Nat /\ Len(c.msgs) + Out(req.pid) <= Due(req.pid)
            BY <2>2, <3>1 DEF RoomInv, OwnRoom, Types, PlaceTypes
        <3>4. Due(req.pid) \in Nat /\ Due(req.pid) <= 2
            BY DEF Due
        <3>5. QED
            BY <3>2, <3>3, <3>4, MsgSeqnumAssumption
    <2>3. QED
        BY <2>1, <2>2
<1>4. QED
    BY <1>1, <1>2, <1>3, GrantInvariant, NextInv, PTL DEF Spec

=============================================================================
